---- MODULE Spec2Model ----
(***************************************************************************)
(* tokio-actor-cache: container owners (keyed map, set, sequence), their   *)
(* inboxes, the periodic tick (replication pull, TTL sweep, LRU/LFU        *)
(* eviction) and primary -> follower replication.                          *)
(*                                                                         *)
(* Option<T> is modelled as a sequence of length at most one:              *)
(* None = <<>>, Some(x) = <<x>>.  A HashMap is a function whose DOMAIN is  *)
(* the set of keys present.  Instant is a natural number read from `now`.  *)
(***************************************************************************)
EXTENDS Integers, Sequences, FiniteSets, TLC

\* ------------------------------------------------------------------ bounds
MaxTime == 2      \* the clock stops advancing here
MaxCmds == 3      \* commands sent by callers in one behaviour
MaxInbox == 2     \* caller commands waiting in one inbox
MaxReplCmds == 4  \* commands sent by callers in one behaviour of the replication scenario
MaxWrites == 3    \* calls made in one behaviour of the write scenario
MaxClusterCmds == 2   \* calls made on the cluster handle in one behaviour
MaxUnionCmds == 3     \* calls made on the cluster handle in one behaviour with get_all
MaxHandles == 2       \* live handles to one owner
MaxPullCmds == 3      \* commands sent by callers in one behaviour with failing pulls
MaxSeqCmds == 4       \* calls made on a sequence in one behaviour of the order scenario

\* usize::MAX. The checker's integers are 32 bits wide, so the model takes their
\* largest value; only "larger than every length the model reaches" matters.
UsizeMax == 2147483647

Owners == {"p", "f"}
Keys == {"a", "b", "c"}
Vals == {1, 2}
Durations == {1, 2}     \* the relative expirations callers pass
Capacities == {1, 2}    \* the capacities of LRU(C) / LFU(C)

None == <<>>
Some(x) == <<x>>

\* ------------------------------------------------------------------ state
VARIABLES
    shape,              \* owner -> "hm" | "hs" | "vec" | "bvec" | "bhs": which container the
                        \* owner holds ("bvec", "bhs": the sequence and the set of
                        \* tokio_cache::bounded)
    expiration_policy,  \* owner -> ExpirationPolicy given to new()
    overflow_checks,    \* build profile: TRUE panics on integer overflow, FALSE wraps
    nodes,              \* HashMap<u64, HashMapCache> of a cluster: shard id -> owner
    scan,               \* the get_all in progress on a cluster handle: the shard ids
                        \* its loop has still to visit, and `res` so far
    buffer,             \* owner -> capacity of its inbox: None for unbounded_channel(),
                        \* Some(n) for channel(n)
    handles,            \* owner -> number of live handles (clones of tx) to its inbox
    hm,                 \* owner -> storage of the map (key -> entry) or set (val -> state)
    vec,                \* owner -> storage of the sequence
    replica_of,         \* owner -> Option<owner>: the follower link
    rx,                 \* owner -> inbox, a sequence of commands
    pc,                 \* owner -> "idle" | "pull" (tick awaiting resp_rx) | "panicked"
    resp_rx,            \* owner -> reply slot of the pull: <<>> pending, <<"ok", snap>>, <<"err">>
    now,                \* Instant::now()
    nsent,              \* number of commands callers have sent
    last,               \* history: the latest step of an owner and what it replied
    hist                \* history: reference models of what was sent and served

ownerVars == <<shape, expiration_policy, overflow_checks, nodes, scan, buffer, handles, hm, vec,
              replica_of, rx, pc, resp_rx>>
vars == <<ownerVars, now, nsent, last, hist>>

PolicyNone == [kind |-> "None", capacity |-> 0]
Policies == {PolicyNone} \cup [kind : {"LRU", "LFU"}, capacity : Capacities]

EmptyMap == [k \in {} |-> 0]

\* no get_all is in progress on the cluster handle
NoScan == [pc |-> "idle", left |-> <<>>, res |-> <<>>]
NoEvent == [ev |-> "none"]

\* hist.sent[o][k], hist.served[o][k]: the value key k has after the commands
\* sent to o so far (in send order), served by o so far (in serve order);
\* hist.snap[f]: hist.served of f's primary when it served f's latest GetAllRaw;
\* hist.applied: the <<key, value>> pairs whose insert was sent to the primary so far;
\* hist.stop_seen[f]: Some(hist.applied) as it was when f's stop_replicating returned;
\* hist.prev: the storage the latest served command of the write scenario found;
\* hist.inserted: the keys (set values) passed to the cluster's insert so far;
\* hist.plain: no cluster call so far gave an expiration;
\* hist.refused: the ids of the commands a try_* call did not get into the inbox;
\* hist.snap_store[f]: the primary's storage when it served f's latest GetAllRaw;
\* hist.pushed: the values of the pushes that appended an entry, in push order;
\* hist.seen: what the shards held together at each instant since the get_all in
\* progress on the cluster handle began.
NoHistory ==
    [sent |-> [o \in Owners |-> [k \in Keys |-> None]],
     served |-> [o \in Owners |-> [k \in Keys |-> None]],
     snap |-> [o \in Owners |-> [k \in Keys |-> None]],
     applied |-> {},
     stop_seen |-> [o \in Owners |-> None],
     prev |-> <<>>,
     inserted |-> {},
     plain |-> TRUE,
     refused |-> {},
     snap_store |-> [o \in Owners |-> EmptyMap],
     pushed |-> <<>>,
     seen |-> {}]

\* ---------------------------------------------------------------- helpers
\* expiration.and_then(|ex| ex.checked_duration_since(Instant::now()))
Remaining(expiration, t) ==
    IF expiration # None /\ expiration[1] >= t THEN Some(expiration[1] - t) ELSE None

MapRemove(m, k) == [x \in DOMAIN m \ {k} |-> m[x]]
MapPut(m, k, e) == [x \in DOMAIN m \cup {k} |-> IF x = k THEN e ELSE m[x]]

\* ex.and_then(|d| Some(Instant::now() + d))
Expiration(ex, t) == IF ex = None THEN None ELSE Some(t + ex[1])

\* (mutant) an entry is kept through the instant of its deadline
LiveInclusive(e, t) == e.expiration = None \/ t <= e.expiration[1]

\* the predicate of retain(): Some(exp) => Instant::now() < exp, None => true
Live(e, t) == e.expiration = None \/ t < e.expiration[1]

\* a - b on usize in a build without overflow checks
WrappingSub(a, b) == IF a >= b THEN a - b ELSE UsizeMax - (b - a) + 1

\* hm.retain(...) of the tick
Retain(m, t) == [k \in {x \in DOMAIN m : Live(m[x], t)} |-> m[k]]

\* (mutant) both policies rank by last_accessed
RankByRecency(e, kind) == e.last_accessed

\* the key of min_by_key: call_cnt for LFU, last_accessed for LRU
Rank(e, kind) == IF kind = "LFU" THEN e.call_cnt ELSE e.last_accessed

\* (mutant) max_by_key in place of min_by_key
MaxKeys(m, kind) ==
    {k \in DOMAIN m : \A j \in DOMAIN m : Rank(m[k], kind) >= Rank(m[j], kind)}

\* hm.iter().min_by_key(..): a HashMap iterates in an arbitrary order, so any
\* key of minimal rank may be the one returned
MinKeys(m, kind) ==
    {k \in DOMAIN m : \A j \in DOMAIN m : Rank(m[k], kind) <= Rank(m[j], kind)}

\* for _ in 0..n_exceed { if let Some(key) = min { hm.remove(&key) } }
\* the set of maps the loop may leave
RECURSIVE EvictLoop(_, _, _)
EvictLoop(m, n, kind) ==
    IF n = 0 \/ DOMAIN m = {} THEN {m}
    ELSE UNION {EvictLoop(MapRemove(m, k), n - 1, kind) : k \in MinKeys(m, kind)}

\* (mutant) one entry is evicted per tick, whatever the excess
EvictHmOnce(m, policy) ==
    IF policy.kind # "None" /\ Cardinality(DOMAIN m) > policy.capacity
    THEN EvictLoop(m, 1, policy.kind)
    ELSE {m}

\* (mutant) the length test is `hm.len() >= capacity`: a full map loses an entry
EvictHmAtCapacity(m, policy) ==
    IF policy.kind # "None" /\ Cardinality(DOMAIN m) >= policy.capacity
    THEN EvictLoop(m, 1, policy.kind)
    ELSE {m}

\* match expiration_policy { LFU(capacity) | LRU(capacity) => .., None => () }
EvictHm(m, policy) ==
    IF policy.kind = "None" THEN {m}
    ELSE LET n_exceed == WrappingSub(Cardinality(DOMAIN m), policy.capacity)
         IN  IF Cardinality(DOMAIN m) > policy.capacity
             THEN EvictLoop(m, n_exceed, policy.kind)
             ELSE {m}

\* `hm.len() - capacity` is evaluated before the length is compared
SubOverflows(m, policy) ==
    policy.kind # "None" /\ Cardinality(DOMAIN m) < policy.capacity

\* ------------------------------------------------- keyed map handlers
\* Each handler returns [hm |-> storage afterwards, out |-> what goes to resp_tx].

\* (mutant) hm.entry(key).or_insert(..) whatever nx is
HmInsertOrInsert(m, key, val, ex, nx, t) ==
    IF key \in DOMAIN m THEN m
    ELSE MapPut(m, key, [val |-> val, expiration |-> Expiration(ex, t),
                         call_cnt |-> 0, last_accessed |-> t])

\* (mutant) nx is ignored: a present key is always overwritten
HmInsertIgnoresNx(m, key, val, ex, nx, t) ==
    LET entry(cnt) == [val |-> val, expiration |-> Expiration(ex, t),
                       call_cnt |-> cnt, last_accessed |-> t]
    IN  MapPut(m, key, entry(IF key \in DOMAIN m THEN m[key].call_cnt + 1 ELSE 0))

\* (mutant) an overwrite keeps the deadline the key had
HmInsertKeepsDeadline(m, key, val, ex, nx, t) ==
    LET entry(cnt, exp) == [val |-> val, expiration |-> exp,
                            call_cnt |-> cnt, last_accessed |-> t]
    IN  IF key \in DOMAIN m
        THEN IF nx THEN m
             ELSE MapPut(m, key, entry(m[key].call_cnt + 1, m[key].expiration))
        ELSE MapPut(m, key, entry(0, Expiration(ex, t)))

HmInsert(m, key, val, ex, nx, t) ==
    LET entry(cnt) == [val |-> val, expiration |-> Expiration(ex, t),
                       call_cnt |-> cnt, last_accessed |-> t]
    IN  IF key \in DOMAIN m
        THEN IF nx THEN m ELSE MapPut(m, key, entry(m[key].call_cnt + 1))
        ELSE MapPut(m, key, entry(0))

\* the shortest of the argument arrays: zip stops there
ZipLen(seqs) ==
    CHOOSE n \in {Len(seqs[i]) : i \in 1..Len(seqs)} :
        \A i \in 1..Len(seqs) : n <= Len(seqs[i])

\* for (((key, val), ex), nx) in keys.zip(vals).zip(ex).zip(nx) { the arm of Insert }
RECURSIVE HmMInsertFrom(_, _, _, _, _, _, _)
HmMInsertFrom(m, i, keys, vals, ex, nx, t) ==
    IF i > ZipLen(<<keys, vals, ex, nx>>) THEN m
    ELSE HmMInsertFrom(HmInsert(m, keys[i], vals[i], ex[i], nx[i], t),
                       i + 1, keys, vals, ex, nx, t)

HmMInsert(m, keys, vals, ex, nx, t) == HmMInsertFrom(m, 1, keys, vals, ex, nx, t)

\* (mutant) the access is counted, the time of access is not recorded
TouchKeepsTime(m, key, t) == [m EXCEPT ![key].call_cnt = @ + 1]

\* val_with_state.call_cnt += 1; val_with_state.last_accessed = Instant::now()
Touch(m, key, t) ==
    [m EXCEPT ![key].call_cnt = @ + 1, ![key].last_accessed = t]

HmGet(m, key, t) ==
    IF key \in DOMAIN m
    THEN [hm |-> Touch(m, key, t), out |-> Some(m[key].val)]
    ELSE [hm |-> m, out |-> None]

RECURSIVE HmMGet(_, _, _)
HmMGet(m, keys, t) ==
    IF keys = <<>> THEN [hm |-> m, out |-> <<>>]
    ELSE LET one == HmGet(m, Head(keys), t)
             rest == HmMGet(one.hm, Tail(keys), t)
         IN  [hm |-> rest.hm, out |-> <<one.out>> \o rest.out]

RECURSIVE HmContainsKey(_, _, _)
HmContainsKey(m, keys, t) ==
    IF keys = <<>> THEN [hm |-> m, out |-> <<>>]
    ELSE LET k == Head(keys)
             m1 == IF k \in DOMAIN m THEN Touch(m, k, t) ELSE m
             rest == HmContainsKey(m1, Tail(keys), t)
         IN  [hm |-> rest.hm, out |-> <<k \in DOMAIN m1>> \o rest.out]

RECURSIVE HmRemove(_, _)
HmRemove(m, keys) ==
    IF keys = <<>> THEN [hm |-> m, out |-> <<>>]
    ELSE LET k == Head(keys)
             rest == HmRemove(MapRemove(m, k), Tail(keys))
         IN  [hm |-> rest.hm,
              out |-> <<IF k \in DOMAIN m THEN Some(m[k].val) ELSE None>> \o rest.out]

HmGetAll(m, t) ==
    [hm |-> [k \in DOMAIN m |-> [m[k] EXCEPT !.call_cnt = @ + 1, !.last_accessed = t]],
     out |-> [k \in DOMAIN m |-> m[k].val]]

\* keys.iter().map(|key| hm.get_mut(&key).and_then(|e| { touch; e.expiration.and_then(
\*     |ex| ex.checked_duration_since(Instant::now())) }))
RECURSIVE HmTTL(_, _, _)
HmTTL(m, keys, t) ==
    IF keys = <<>> THEN [hm |-> m, out |-> <<>>]
    ELSE LET k == Head(keys)
             m1 == IF k \in DOMAIN m THEN Touch(m, k, t) ELSE m
             rest == HmTTL(m1, Tail(keys), t)
         IN  [hm |-> rest.hm,
              out |-> <<IF k \in DOMAIN m THEN Remaining(m[k].expiration, t) ELSE None>>
                      \o rest.out]

\* ------------------------------------------------------- set handlers
\* The set keeps HashMap<V, HashSetState>; nx is an Option<bool>.
HsInsert(m, val, ex, nx, t) ==
    LET call_cnt == IF nx = Some(TRUE) THEN 0
                    ELSE IF val \in DOMAIN m THEN m[val].call_cnt + 1 ELSE 0
    IN  MapPut(m, val, [expiration |-> Expiration(ex, t),
                        call_cnt |-> call_cnt, last_accessed |-> t])

\* hm.clone().into_iter().map(|(val, mut state)| { touch the clone; val }).collect():
\* the reply is the set of stored values, the stored states are not changed
HsGetAll(m, t) == [hm |-> m, out |-> DOMAIN m]

\* vals.iter().map(|val| match hm.remove(&val) { Some(_) => true, None => false })
RECURSIVE HsRemove(_, _)
HsRemove(m, vals) ==
    IF vals = <<>> THEN [hm |-> m, out |-> <<>>]
    ELSE LET rest == HsRemove(MapRemove(m, Head(vals)), Tail(vals))
         IN  [hm |-> rest.hm, out |-> <<Head(vals) \in DOMAIN m>> \o rest.out]

\* one step of the loop of MInsert: hm.entry(val).or_insert(state) when
\* nx == Some(true), hm.insert(val, state) otherwise
HsMInsertStep(m, val, ex, nx, t) ==
    IF nx = Some(TRUE) /\ val \in DOMAIN m THEN m ELSE HsInsert(m, val, ex, nx, t)

\* for ((val, ex), nx) in vals.into_iter().zip(ex).zip(nx) { .. }
RECURSIVE HsMInsertFrom(_, _, _, _, _, _)
HsMInsertFrom(m, i, vals, ex, nx, t) ==
    IF i > ZipLen(<<vals, ex, nx>>) THEN m
    ELSE HsMInsertFrom(HsMInsertStep(m, vals[i], ex[i], nx[i], t), i + 1, vals, ex, nx, t)

HsMInsert(m, vals, ex, nx, t) == HsMInsertFrom(m, 1, vals, ex, nx, t)

\* The bounded set keeps HashSet<ValueEx<V>>, ValueEx { val, expiration }
\* deriving Eq and Hash over both fields: storage is a map from ValueEx to ().
\* Both branches of `if nx == Some(true) && !hs.contains(&val_ex)` insert.
BHsInsert(m, val, ex, nx, t) ==
    LET val_ex == [val |-> val, expiration |-> Expiration(ex, t)]
    IN  IF val_ex \in DOMAIN m THEN m ELSE MapPut(m, val_ex, TRUE)

RECURSIVE BHsMInsertFrom(_, _, _, _, _, _)
BHsMInsertFrom(m, i, vals, ex, nx, t) ==
    IF i > ZipLen(<<vals, ex, nx>>) THEN m
    ELSE BHsMInsertFrom(BHsInsert(m, vals[i], ex[i], nx[i], t), i + 1, vals, ex, nx, t)

BHsMInsert(m, vals, ex, nx, t) == BHsMInsertFrom(m, 1, vals, ex, nx, t)

\* hs.retain(|val_ex| match val_ex.expiration { Some(exp) => now < exp, None => true })
BHsRetain(m, t) == [e \in {x \in DOMAIN m : Live(x, t)} |-> m[e]]

\* -------------------------------------------------- sequence handlers
\* the first of the matching positions idxs (an iterator stops at the first
\* match; min_by_key returns the first minimum), or 0 when nothing matches
FirstIdx(idxs) ==
    IF idxs = {} THEN 0 ELSE CHOOSE i \in idxs : \A j \in idxs : i <= j

VecPush(v, val, ex, nx, t) ==
    LET found == FirstIdx({i \in 1..Len(v) : v[i].val = val})
        entry(cnt) == [val |-> val, expiration |-> Expiration(ex, t),
                       call_cnt |-> cnt, last_accessed |-> t]
    IN  IF found # 0
        THEN IF nx THEN v ELSE Append(v, entry(v[found].call_cnt + 1))
        ELSE Append(v, entry(0))

\* for ((val, ex), nx) in vals.into_iter().zip(ex).zip(nx) { the arm of Push }
RECURSIVE VecMPushFrom(_, _, _, _, _, _)
VecMPushFrom(v, i, vals, ex, nx, t) ==
    IF i > ZipLen(<<vals, ex, nx>>) THEN v
    ELSE VecMPushFrom(VecPush(v, vals[i], ex[i], nx[i], t), i + 1, vals, ex, nx, t)

VecMPush(v, vals, ex, nx, t) == VecMPushFrom(v, 1, vals, ex, nx, t)

\* Push of the bounded sequence: nx is an Option<bool>; both branches of
\* `if nx == Some(true) && !vec.contains(&val_ex)` push
BVecPush(v, val, ex, nx, t) ==
    LET found == FirstIdx({i \in 1..Len(v) : v[i].val = val})
        call_cnt == IF nx = Some(TRUE) THEN 0
                    ELSE IF found # 0 THEN v[found].call_cnt + 1 ELSE 0
    IN  Append(v, [val |-> val, expiration |-> Expiration(ex, t),
                   call_cnt |-> call_cnt, last_accessed |-> t])

RECURSIVE BVecMPushFrom(_, _, _, _, _, _)
BVecMPushFrom(v, i, vals, ex, nx, t) ==
    IF i > ZipLen(<<vals, ex, nx>>) THEN v
    ELSE BVecMPushFrom(BVecPush(v, vals[i], ex[i], nx[i], t), i + 1, vals, ex, nx, t)

BVecMPush(v, vals, ex, nx, t) == BVecMPushFrom(v, 1, vals, ex, nx, t)

\* call_cnt += 1; last_accessed = Instant::now() of the element at i
VecTouch(v, i, t) == [v EXCEPT ![i].call_cnt = @ + 1, ![i].last_accessed = t]

\* Remove of both sequences: the matching elements are touched and collected
\* in found_set; no element is taken out
VecRemove(v, vals, t) ==
    LET InVals(x) == \E i \in 1..Len(vals) : vals[i] = x
    IN  [vec |-> [i \in 1..Len(v) |->
                    IF InVals(v[i].val)
                    THEN [v[i] EXCEPT !.call_cnt = @ + 1, !.last_accessed = t]
                    ELSE v[i]],
         out |-> [i \in 1..Len(vals) |-> \E j \in 1..Len(v) : v[j].val = vals[i]]]

\* TTL of the unbounded sequence: per input the first equal element is
\* touched and its remaining time returned, None when no element is equal
RECURSIVE VecTTLFrom(_, _, _, _, _)
VecTTLFrom(v, i, vals, t, out) ==
    IF i > Len(vals) THEN [vec |-> v, out |-> out]
    ELSE LET found == FirstIdx({j \in 1..Len(v) : v[j].val = vals[i]})
         IN  IF found = 0
             THEN VecTTLFrom(v, i + 1, vals, t, Append(out, None))
             ELSE VecTTLFrom(VecTouch(v, found, t), i + 1, vals, t,
                             Append(out, Remaining(v[found].expiration, t)))

VecTTL(v, vals, t) == VecTTLFrom(v, 1, vals, t, <<>>)

\* TTL of the bounded sequence: for val in &vals { for val_ex in &mut vec {
\* if equal { touch; ttl.push(remaining) } else { ttl.push(None) } } };
\* step n visits element (n % len) + 1 for input (n / len) + 1
RECURSIVE BVecTTLFrom(_, _, _, _, _)
BVecTTLFrom(v, n, vals, t, out) ==
    IF Len(v) = 0 \/ n >= Len(vals) * Len(v) THEN [vec |-> v, out |-> out]
    ELSE LET i == (n \div Len(v)) + 1
             j == (n % Len(v)) + 1
         IN  IF v[j].val = vals[i]
             THEN BVecTTLFrom(VecTouch(v, j, t), n + 1, vals, t,
                              Append(out, Remaining(v[j].expiration, t)))
             ELSE BVecTTLFrom(v, n + 1, vals, t, Append(out, None))

BVecTTL(v, vals, t) == BVecTTLFrom(v, 0, vals, t, <<>>)

\* GetAll of both sequences: vec.iter_mut().map(|e| { touch; e.val.clone() }).collect()
VecGetAll(v, t) ==
    [vec |-> [i \in 1..Len(v) |-> [v[i] EXCEPT !.call_cnt = @ + 1, !.last_accessed = t]],
     out |-> [i \in 1..Len(v) |-> v[i].val]]

\* (mutant) vec.swap_remove(i): the last element takes the place of the removed one
VecSwapRemove(v, i) ==
    IF i = Len(v) THEN SubSeq(v, 1, Len(v) - 1)
    ELSE [j \in 1..(Len(v) - 1) |-> IF j = i THEN v[Len(v)] ELSE v[j]]

\* vec.remove(i): the elements after i shift left
VecRemoveAt(v, i) == SubSeq(v, 1, i - 1) \o SubSeq(v, i + 1, Len(v))

\* vec.retain(...) of the tick
VecRetain(v, t) == LET Keep(e) == Live(e, t) IN SelectSeq(v, Keep)

\* if vec.len() > capacity { vec.remove(index of the first minimum) }
EvictVec(v, policy) ==
    IF policy.kind # "None" /\ Len(v) > policy.capacity
    THEN LET IsMin(i) == \A j \in 1..Len(v) :
                            Rank(v[i], policy.kind) <= Rank(v[j], policy.kind)
         IN  VecRemoveAt(v, FirstIdx({i \in 1..Len(v) : IsMin(i)}))
    ELSE v

\* --------------------------------------------------------- the owner
IsSeq(sh) == sh \in {"vec", "bvec"}

Store(o) == IF IsSeq(shape[o]) THEN vec[o] ELSE hm[o]

\* (mutant) the newest waiting command is taken first
DequeueNewest(q) == [cmd |-> q[Len(q)], rest |-> SubSeq(q, 1, Len(q) - 1)]

\* rx.recv(): the oldest waiting command, and the inbox without it
Dequeue(q) == [cmd |-> Head(q), rest |-> Tail(q)]

\* match cmd { .. } of an owner of shape sh with storage st and follower link
\* `link`, at time t: storage and link afterwards, and the reply
\* (mutant) StopReplicating leaves the follower link as it is
StopLinkKept(link) == link

\* replica_of = None
StopLink(link) == None

\* (mutant) the snapshot is taken the way get_all reads: every entry is touched
GetAllRawTouches(st, t) ==
    [k \in DOMAIN st |-> [st[k] EXCEPT !.call_cnt = @ + 1, !.last_accessed = t]]

\* let val = hm.clone(); resp_tx.send(val): the storage GetAllRaw leaves
GetAllRawStore(st, t) == st

Effect(sh, st, link, cmd, t) ==
    LET keep == [store |-> st, link |-> link, out |-> None]
        map(r) == [store |-> r.hm, link |-> link, out |-> r.out]
        seq(r) == [store |-> r.vec, link |-> link, out |-> r.out]
    IN  CASE cmd.op = "StopReplicating" -> [keep EXCEPT !.link = StopLink(link)]
          [] cmd.op = "Replicate" -> [keep EXCEPT !.link = Some(cmd.master)]
          [] cmd.op = "GetAllRaw" ->
                [keep EXCEPT !.store = GetAllRawStore(st, t), !.out = st]
          [] cmd.op = "Clear" -> [keep EXCEPT !.store = IF IsSeq(sh) THEN <<>> ELSE EmptyMap]
          [] cmd.op = "Insert" /\ sh = "hm" ->
                [keep EXCEPT !.store = HmInsert(st, cmd.key, cmd.val, cmd.ex, cmd.nx, t)]
          [] cmd.op = "MInsert" /\ sh = "hm" ->
                [keep EXCEPT !.store = HmMInsert(st, cmd.keys, cmd.vals, cmd.ex, cmd.nx, t)]
          [] cmd.op = "Insert" /\ sh = "hs" ->
                [keep EXCEPT !.store = HsInsert(st, cmd.val, cmd.ex, cmd.nx, t)]
          [] cmd.op = "Insert" /\ sh = "bhs" ->
                [keep EXCEPT !.store = BHsInsert(st, cmd.val, cmd.ex, cmd.nx, t)]
          [] cmd.op = "MInsert" /\ sh = "bhs" ->
                [keep EXCEPT !.store = BHsMInsert(st, cmd.vals, cmd.ex, cmd.nx, t)]
          [] cmd.op = "MInsert" /\ sh = "hs" ->
                [keep EXCEPT !.store = HsMInsert(st, cmd.vals, cmd.ex, cmd.nx, t)]
          [] cmd.op = "Push" /\ sh = "vec" ->
                [keep EXCEPT !.store = VecPush(st, cmd.val, cmd.ex, cmd.nx, t)]
          [] cmd.op = "Push" /\ sh = "bvec" ->
                [keep EXCEPT !.store = BVecPush(st, cmd.val, cmd.ex, cmd.nx, t)]
          [] cmd.op = "MPush" /\ sh = "vec" ->
                [keep EXCEPT !.store = VecMPush(st, cmd.vals, cmd.ex, cmd.nx, t)]
          [] cmd.op = "MPush" /\ sh = "bvec" ->
                [keep EXCEPT !.store = BVecMPush(st, cmd.vals, cmd.ex, cmd.nx, t)]
          [] cmd.op = "Remove" /\ IsSeq(sh) -> seq(VecRemove(st, cmd.vals, t))
          [] cmd.op = "TTL" /\ sh = "vec" -> seq(VecTTL(st, cmd.vals, t))
          [] cmd.op = "TTL" /\ sh = "bvec" -> seq(BVecTTL(st, cmd.vals, t))
          [] cmd.op = "TTL" /\ sh = "hm" -> map(HmTTL(st, cmd.keys, t))
          [] cmd.op = "Get" -> map(HmGet(st, cmd.key, t))
          [] cmd.op = "MGet" -> map(HmMGet(st, cmd.keys, t))
          [] cmd.op = "ContainsKey" -> map(HmContainsKey(st, cmd.keys, t))
          [] cmd.op = "Remove" /\ sh = "hs" -> map(HsRemove(st, cmd.vals))
          [] cmd.op = "Remove" -> map(HmRemove(st, cmd.keys))
          [] cmd.op = "GetAll" /\ sh = "hs" -> map(HsGetAll(st, t))
          [] cmd.op = "GetAll" /\ IsSeq(sh) -> seq(VecGetAll(st, t))
          [] cmd.op = "GetAll" -> map(HmGetAll(st, t))

SetStore(o, st) ==
    /\ hm' = IF IsSeq(shape[o]) THEN hm ELSE [hm EXCEPT ![o] = st]
    /\ vec' = IF IsSeq(shape[o]) THEN [vec EXCEPT ![o] = st] ELSE vec

\* the arm of `match cmd` taken for cmd, the inbox being `rest` afterwards
Handle(o, cmd, rest) ==
    LET eff == Effect(shape[o], Store(o), replica_of[o], cmd, now)
    IN  /\ rx' = [rx EXCEPT ![o] = rest]
        /\ SetStore(o, eff.store)
        /\ replica_of' = [replica_of EXCEPT ![o] = eff.link]
        /\ resp_rx' = IF cmd.op = "GetAllRaw"
                      THEN [resp_rx EXCEPT ![cmd.resp_tx] = <<"ok", eff.out>>]
                      ELSE resp_rx
        /\ last' = [ev |-> "Recv", o |-> o, cmd |-> cmd, out |-> eff.out, at |-> now]
        /\ UNCHANGED <<shape, expiration_policy, overflow_checks, nodes, scan, buffer, handles, pc, now>>

\* command = rx.recv() => match cmd { .. }
Recv(o) ==
    /\ pc[o] = "idle"
    /\ rx[o] # <<>>
    /\ Handle(o, Dequeue(rx[o]).cmd, Dequeue(rx[o]).rest)
    /\ UNCHANGED nsent

\* A handle method whose command the owner takes from an empty inbox before
\* anything else happens: tx.send(cmd) followed at once by rx.recv().
Call(o, cmd, limit) ==
    /\ nsent < limit
    /\ pc[o] = "idle"
    /\ rx[o] = <<>>
    /\ Handle(o, cmd, <<>>)
    /\ nsent' = nsent + 1

\* (mutant) only the first two argument arrays are compared
InconsistentLenFirstTwo(arrays) == Len(arrays[1]) # Len(arrays[2])

\* if keys.len() != vals.len() || vals.len() != ex.len() || ex.len() != nx.len()
InconsistentLen(arrays) ==
    \E i \in 1..(Len(arrays) - 1) : Len(arrays[i]) # Len(arrays[i + 1])

\* the argument arrays of a multi-argument call
Arrays(cmd) ==
    IF cmd.op = "MInsert" /\ "keys" \in DOMAIN cmd
    THEN <<cmd.keys, cmd.vals, cmd.ex, cmd.nx>>
    ELSE <<cmd.vals, cmd.ex, cmd.nx>>

\* return Err(TokioActorCacheError::InconsistentLen): nothing is sent
Refuse(o, cmd, limit) ==
    /\ nsent < limit
    /\ nsent' = nsent + 1
    /\ last' = [ev |-> "Err", o |-> o, cmd |-> cmd, err |-> "InconsistentLen", at |-> now]
    /\ UNCHANGED <<ownerVars, now>>

\* minsert / mpush of a handle: the length test, then tx.send(cmd)
MultiCall(o, cmd, limit) ==
    IF InconsistentLen(Arrays(cmd)) THEN Refuse(o, cmd, limit) ELSE Call(o, cmd, limit)

\* The owner task panics: its receiver and every waiting command are dropped,
\* and with them the reply senders of waiting pulls.
Panic(o, st) ==
    /\ pc' = [pc EXCEPT ![o] = "panicked"]
    /\ rx' = [rx EXCEPT ![o] = <<>>]
    /\ resp_rx' = [f \in Owners |->
                     IF \E i \in 1..Len(rx[o]) :
                          rx[o][i].op = "GetAllRaw" /\ rx[o][i].resp_tx = f
                     THEN <<"err">>
                     ELSE IF f = o THEN <<>> ELSE resp_rx[f]]
    /\ SetStore(o, st)
    /\ last' = [ev |-> "Panic", o |-> o, at |-> now]

\* The tick after the replication pull: TTL sweep, then capacity enforcement,
\* on storage st (the pulled snapshot, or the owner's own storage).
SweepEvict(o, st, pulled) ==
    LET swept == IF IsSeq(shape[o]) THEN VecRetain(st, now)
                 ELSE IF shape[o] = "bhs" THEN BHsRetain(st, now)
                 ELSE Retain(st, now)
        done(after) ==
            /\ SetStore(o, after)
            /\ pc' = [pc EXCEPT ![o] = "idle"]
            /\ rx' = rx
            /\ resp_rx' = [resp_rx EXCEPT ![o] = <<>>]
            /\ last' = [ev |-> "Tick", o |-> o, at |-> now, before |-> st,
                        swept |-> swept, pulled |-> pulled]
    IN  IF IsSeq(shape[o])
        THEN done(EvictVec(swept, expiration_policy[o]))
        ELSE IF overflow_checks /\ SubOverflows(swept, expiration_policy[o])
             THEN Panic(o, swept)
             ELSE \E after \in EvictHm(swept, expiration_policy[o]) : done(after)

\* _ = ticker.tick() => { .. } of an owner that follows nobody
Tick(o) ==
    /\ pc[o] = "idle"
    /\ replica_of[o] = None
    /\ SweepEvict(o, Store(o), "none")
    /\ UNCHANGED <<shape, expiration_policy, overflow_checks, nodes, scan, buffer, handles,
                   replica_of, now, nsent>>

\* (mutant) the channel takes a message whatever it holds
FullNever(o) == FALSE

\* try_send finds no free permit: the channel holds `buffer` unreceived messages
Full(o) == buffer[o] # None /\ Len(rx[o]) >= buffer[o][1]

\* the tick of a follower up to `resp_rx.await`: master.tx.send(GetAllRaw), or
\* master.tx.try_send(GetAllRaw) in the bounded set; a command that is not
\* taken is dropped with its resp_tx, so resp_rx.await yields Err
TickPull(o) ==
    /\ pc[o] = "idle"
    /\ replica_of[o] # None
    /\ LET master == replica_of[o][1]
       IN  IF pc[master] = "panicked" \/ (shape[o] = "bhs" /\ Full(master))
           THEN /\ rx' = rx
                /\ resp_rx' = [resp_rx EXCEPT ![o] = <<"err">>]
           ELSE /\ rx' = [rx EXCEPT ![master] = Append(@, [op |-> "GetAllRaw", resp_tx |-> o])]
                /\ resp_rx' = [resp_rx EXCEPT ![o] = <<>>]
    /\ pc' = [pc EXCEPT ![o] = "pull"]
    /\ last' = [ev |-> "Pull", o |-> o]
    /\ UNCHANGED <<shape, expiration_policy, overflow_checks, nodes, scan, buffer, handles, hm, vec,
                   replica_of, now, nsent>>

\* (mutant) a failed pull clears the storage
PullResultErrClears(reply, own) == IF reply[1] = "ok" THEN reply[2] ELSE EmptyMap

\* (mutant) the pulled snapshot is dropped
PullResultKeepsOwn(reply, own) == own

\* match resp_rx.await { Ok(master_hm) => hm = master_hm, Err(_) => eprintln!(..) }
PullResult(reply, own) == IF reply[1] = "ok" THEN reply[2] ELSE own

\* the tick of a follower from the answer of `resp_rx.await` on
TickResume(o) ==
    /\ pc[o] = "pull"
    /\ resp_rx[o] # <<>>
    /\ SweepEvict(o, PullResult(resp_rx[o], Store(o)), resp_rx[o][1])
    /\ UNCHANGED <<shape, expiration_policy, overflow_checks, nodes, scan, buffer, handles,
                   replica_of, now, nsent>>

\* caller commands waiting in an inbox (pulls of followers are not counted)
Waiting(q) == LET Caller(c) == c.op # "GetAllRaw" IN Len(SelectSeq(q, Caller))

\* self.tx.send(cmd) of a handle method
SendCmd(o, cmd, limit) ==
    /\ nsent < limit
    /\ pc[o] # "panicked"
    /\ Waiting(rx[o]) < MaxInbox
    /\ rx' = [rx EXCEPT ![o] = Append(@, cmd)]
    /\ nsent' = nsent + 1
    /\ last' = NoEvent
    /\ UNCHANGED <<shape, expiration_policy, overflow_checks, nodes, scan, buffer, handles, hm, vec,
                   replica_of, pc,
                   resp_rx, now>>

\* time passes
Advance ==
    /\ now < MaxTime
    /\ now' = now + 1
    /\ last' = NoEvent
    /\ UNCHANGED <<ownerVars, nsent>>

\* ------------------------------------------------------ what callers send
ExSet == {None} \cup {Some(d) : d \in Durations}

HmCmds(vals, exs, nxs) ==
    [op : {"Insert"}, key : Keys, val : vals, ex : exs, nx : nxs]
    \cup [op : {"Get"}, key : Keys]
    \cup [op : {"MGet", "ContainsKey"}, keys : {<<"a">>, <<"a", "b">>}]

HsCmds(exs) == [op : {"Insert"}, val : Keys, ex : exs, nx : {None}]

VecCmds(exs) == [op : {"Push"}, val : Vals, ex : exs, nx : {FALSE}]

\* ---------------------------------- one standalone owner, every policy
InitOwners(shapes, policies, builds) ==
    /\ shape \in [Owners -> shapes]
    /\ \A o \in Owners : shape[o] = shape["p"]
    /\ expiration_policy \in [Owners -> policies]
    /\ expiration_policy["f"] = PolicyNone
    /\ overflow_checks \in builds
    /\ nodes = EmptyMap
    /\ scan = NoScan
    /\ buffer = [o \in Owners |-> None]
    /\ handles = [o \in Owners |-> 1]
    /\ hm = [o \in Owners |-> EmptyMap]
    /\ vec = [o \in Owners |-> <<>>]
    /\ replica_of = [o \in Owners |-> None]
    /\ rx = [o \in Owners |-> <<>>]
    /\ pc = [o \in Owners |-> "idle"]
    /\ resp_rx = [o \in Owners |-> <<>>]
    /\ now = 0
    /\ nsent = 0
    /\ last = NoEvent
    /\ hist = NoHistory

Init == InitOwners({"hm", "hs", "vec"}, Policies, BOOLEAN)

Request(o) ==
    /\ \E cmd \in (CASE shape[o] = "hm" -> HmCmds({1}, ExSet, {FALSE})
                     [] shape[o] = "hs" -> HsCmds(ExSet)
                     [] shape[o] = "vec" -> VecCmds(ExSet)) : Call(o, cmd, MaxCmds)
    /\ UNCHANGED hist

Maintain(o) == Tick(o) /\ UNCHANGED hist

Elapse == Advance /\ UNCHANGED hist

Next == Request("p") \/ Maintain("p") \/ Elapse

Spec == Init /\ [][Next]_vars

\* ------------------- a standalone map without TTL, commands queue in the inbox
\* what a command does to the value of each key
ModelApply(md, cmd) ==
    CASE cmd.op = "Insert" ->
            IF cmd.nx /\ md[cmd.key] # None THEN md ELSE [md EXCEPT ![cmd.key] = Some(cmd.val)]
      [] cmd.op = "Remove" ->
            [k \in Keys |-> IF \E i \in 1..Len(cmd.keys) : cmd.keys[i] = k THEN None ELSE md[k]]
      [] cmd.op = "Clear" -> [k \in Keys |-> None]
      [] OTHER -> md

PlainCmds ==
    [op : {"Insert"}, key : {"a", "b"}, val : Vals, ex : {None}, nx : {FALSE}]
    \cup [op : {"Get"}, key : {"a", "b"}]
    \cup [op : {"Remove"}, keys : {<<"a">>, <<"a", "b">>}]
    \cup [op : {"Clear"}]

InitPlain == InitOwners({"hm"}, {PolicyNone}, {FALSE})

PlainSend(o) ==
    \E cmd \in PlainCmds :
        /\ SendCmd(o, cmd, MaxCmds)
        /\ hist' = [hist EXCEPT !.sent[o] = ModelApply(@, cmd)]

PlainServe(o) ==
    /\ Recv(o)
    /\ hist' = [hist EXCEPT !.served[o] = ModelApply(@, Dequeue(rx[o]).cmd)]

NextPlain == PlainSend("p") \/ PlainServe("p") \/ Maintain("p") \/ Elapse

SpecPlain == InitPlain /\ [][NextPlain]_vars

\* ------------- one standalone owner, policy None, writes with every nx flag
WriteEx == {None, Some(1)}

HmWriteCmds ==
    [op : {"Insert"}, key : {"a", "b"}, val : Vals, ex : WriteEx, nx : BOOLEAN]
    \cup [op : {"MInsert"}, keys : {<<"a", "b">>, <<"a", "a">>}, vals : {<<2, 1>>},
          ex : {<<None, Some(1)>>}, nx : {<<TRUE, TRUE>>, <<TRUE, FALSE>>, <<FALSE, TRUE>>}]
    \cup [op : {"MInsert"}, keys : {<<"a", "b">>}, vals : {<<2, 1>>, <<2>>},
          ex : {<<None>>, <<None, None>>}, nx : {<<FALSE>>}]
    \cup [op : {"Get"}, key : {"a"}]

OptBool == {None, Some(TRUE), Some(FALSE)}

HsWriteCmds ==
    [op : {"Insert"}, val : {"a", "b"}, ex : WriteEx, nx : OptBool]
    \cup [op : {"MInsert"}, vals : {<<"a", "b">>}, ex : {<<None, Some(1)>>, <<Some(2), None>>},
          nx : {<<Some(TRUE), None>>, <<Some(FALSE), Some(TRUE)>>}]
    \cup [op : {"MInsert"}, vals : {<<"a", "b">>}, ex : {<<None>>, <<None, None>>},
          nx : {<<None>>}]

SeqReads == [op : {"Remove", "TTL"}, vals : {<<1>>, <<2, 1>>}]

VecWriteCmds ==
    [op : {"Push"}, val : Vals, ex : WriteEx, nx : BOOLEAN]
    \cup [op : {"MPush"}, vals : {<<1, 2>>}, ex : {<<None, Some(1)>>, <<None>>},
          nx : {<<TRUE, FALSE>>}]
    \cup SeqReads

BVecWriteCmds ==
    [op : {"Push"}, val : Vals, ex : WriteEx, nx : {None, Some(TRUE)}]
    \cup [op : {"MPush"}, vals : {<<1, 2>>}, ex : {<<None, Some(1)>>, <<None>>},
          nx : {<<Some(TRUE), None>>}]
    \cup SeqReads

WriteCmds(sh) ==
    CASE sh = "hm" -> HmWriteCmds
      [] sh \in {"hs", "bhs"} -> HsWriteCmds
      [] sh = "vec" -> VecWriteCmds
      [] sh = "bvec" -> BVecWriteCmds

InitWrite == InitOwners({"hm", "hs", "bhs", "vec", "bvec"}, {PolicyNone}, {FALSE})

\* a handle method and the owner's service of its command
Write(o) ==
    /\ \E cmd \in WriteCmds(shape[o]) :
            IF cmd.op \in {"MInsert", "MPush"}
            THEN MultiCall(o, cmd, MaxWrites)
            ELSE Call(o, cmd, MaxWrites)
    /\ hist' = [hist EXCEPT !.prev = Store(o)]

NextWrite == Write("p") \/ Maintain("p") \/ Elapse

SpecWrite == InitWrite /\ [][NextWrite]_vars

\* ------------------------- primary p and follower f, maps without TTL
ReplCmds(o) ==
    IF o = "p"
    THEN [op : {"Insert"}, key : {"a"}, val : Vals, ex : {None}, nx : {FALSE}]
         \cup {[op |-> "Remove", keys |-> <<"a">>]}
    ELSE {[op |-> "Replicate", master |-> "p"], [op |-> "StopReplicating"],
          [op |-> "Get", key |-> "a"],
          [op |-> "Insert", key |-> "b", val |-> 1, ex |-> None, nx |-> FALSE]}

InitRepl == InitOwners({"hm"}, {PolicyNone}, {FALSE})

\* stop_replicating() and replicate() return Ok as soon as the command is queued
ReplSend(o) ==
    \E cmd \in ReplCmds(o) :
        /\ SendCmd(o, cmd, MaxReplCmds)
        /\ hist' = [hist EXCEPT
                !.stop_seen[o] =
                    IF cmd.op = "StopReplicating" THEN Some(hist.applied)
                    ELSE IF cmd.op = "Replicate" THEN None ELSE @,
                !.applied = IF cmd.op = "Insert" /\ o = "p"
                            THEN @ \cup {<<cmd.key, cmd.val>>} ELSE @]

ReplServe(o) ==
    /\ Recv(o)
    /\ LET cmd == Dequeue(rx[o]).cmd
       IN  hist' = [hist EXCEPT
                !.served[o] = ModelApply(@, cmd),
                !.prev = Store(o),
                !.snap = IF cmd.op = "GetAllRaw"
                         THEN [@ EXCEPT ![cmd.resp_tx] = hist.served[o]] ELSE @,
                !.snap_store = IF cmd.op = "GetAllRaw"
                               THEN [@ EXCEPT ![cmd.resp_tx] = Store(o)] ELSE @]

Pull(o) == TickPull(o) /\ UNCHANGED hist

Resume(o) == TickResume(o) /\ UNCHANGED hist

NextRepl ==
    \/ ReplSend("p") \/ ReplSend("f")
    \/ ReplServe("p") \/ ReplServe("f")
    \/ Maintain("p") \/ Maintain("f")
    \/ Pull("f") \/ Resume("f")

SpecRepl == InitRepl /\ [][NextRepl]_vars

\* ------------------------------------------------------------ hash router
\* a ^ b on unsigned integers
RECURSIVE BitXor(_, _)
BitXor(a, b) ==
    IF a = 0 THEN b
    ELSE IF b = 0 THEN a
    ELSE (((a % 2) + (b % 2)) % 2) + 2 * BitXor(a \div 2, b \div 2)

\* one bit of CRC-16/XMODEM on the u16 register: shift left, and xor the
\* polynomial 0x1021 in when the top bit fell out
CrcShift(crc) ==
    IF crc >= 32768 THEN BitXor((crc * 2) % 65536, 4129) ELSE (crc * 2) % 65536

RECURSIVE CrcShifts(_, _)
CrcShifts(crc, n) == IF n = 0 THEN crc ELSE CrcShifts(CrcShift(crc), n - 1)

\* crc16_xmodem_fast::hash(bytes): initial register 0, each byte enters at the top
RECURSIVE hash(_, _)
hash(crc, bytes) ==
    IF bytes = <<>> THEN crc
    ELSE hash(CrcShifts(BitXor(crc, Head(bytes) * 256), 8), Tail(bytes))

\* val.as_bytes() of the keys of the model
as_bytes(val) ==
    CASE val = "a" -> <<97>>
      [] val = "b" -> <<98>>
      [] val = "c" -> <<99>>

\* the hexadecimal digits of n, most significant first
RECURSIVE HexDigits(_)
HexDigits(n) == IF n < 16 THEN <<n>> ELSE Append(HexDigits(n \div 16), n % 16)

\* format!("{:04X}", crc): padded with zeros to four digits
RECURSIVE FormatHex(_)
FormatHex(digits) == IF Len(digits) >= 4 THEN digits ELSE FormatHex(<<0>> \o digits)

\* u16::from_str_radix(&hex, 16)
RECURSIVE from_str_radix(_, _, _)
from_str_radix(digits, radix, acc) ==
    IF digits = <<>> THEN acc
    ELSE from_str_radix(Tail(digits), radix, acc * radix + Head(digits))

\* steps 1 and 2 of hash_id, tabulated over the keys of the model:
\* crc = hash(val.as_bytes()); hex = format!("{:04X}", crc);
\* decimal = u16::from_str_radix(&hex, 16)
decimal ==
    [val \in Keys |-> from_str_radix(FormatHex(HexDigits(hash(0, as_bytes(val)))), 16, 0)]

\* hash_id(val, num_shards) for num_shards > 0 (the remainder panics on 0)
hash_id(val, num_shards) == decimal[val] % num_shards

\* ------------------------------------------------- a cluster of map shards
\* (mutant) every key goes to the node of shard id 0
get_node_zero(key) ==
    IF 0 \in DOMAIN nodes THEN [res |-> "Ok", node |-> nodes[0]]
    ELSE [res |-> "NodeNotExists"]

\* get_node(key): hash_id(&format!("{}", key), self.nodes.len() as u16) as u64,
\* then nodes.get(&h_id); "panic" is the remainder by zero inside hash_id
get_node(key) ==
    LET num_shards == Cardinality(DOMAIN nodes) % 65536
    IN  IF num_shards = 0 THEN [res |-> "panic"]
        ELSE LET h_id == hash_id(key, num_shards)
             IN  IF h_id \in DOMAIN nodes THEN [res |-> "Ok", node |-> nodes[h_id]]
                 ELSE [res |-> "NodeNotExists"]

\* the single-item commands a cluster call sends, in the order it sends them
Parts(cmd) ==
    CASE cmd.op \in {"Insert", "Get"} ->
            <<[key |-> IF "key" \in DOMAIN cmd THEN cmd.key ELSE cmd.val, cmd |-> cmd]>>
      [] cmd.op = "MInsert" ->
            [i \in 1..ZipLen(<<cmd.keys, cmd.vals>>) |->
                [key |-> cmd.keys[i],
                 cmd |-> [op |-> "MInsert", keys |-> <<cmd.keys[i]>>,
                          vals |-> <<cmd.vals[i]>>, ex |-> cmd.ex, nx |-> cmd.nx]]]
      [] OTHER ->
            [i \in 1..Len(cmd.keys) |->
                [key |-> cmd.keys[i], cmd |-> [op |-> cmd.op, keys |-> <<cmd.keys[i]>>]]]

\* (mutant) the replies collected so far are dropped
ExtendLatest(res, r) == r

\* res.extend(r)
Extend(res, r) == res \o r

\* for key in keys { let node = self.get_node(key)?; node.tx.send(cmd); res.extend(reply) }
\* each command is served by its shard before the next one is sent
RECURSIVE Dispatch(_, _, _, _)
Dispatch(stores, parts, res, t) ==
    IF parts = <<>> THEN [hm |-> stores, out |-> res, err |-> None]
    ELSE LET part == Head(parts)
             got == get_node(part.key)
         IN  IF got.res # "Ok" THEN [hm |-> stores, out |-> res, err |-> Some(got.res)]
             ELSE LET eff == Effect(shape[got.node], stores[got.node], None, part.cmd, t)
                  IN  Dispatch([stores EXCEPT ![got.node] = eff.store], Tail(parts),
                               IF part.cmd.op = "Get" THEN eff.out ELSE Extend(res, eff.out),
                               t)

\* a call on the cluster handle while every shard is idle with an empty inbox
ClusterCall(cmd, limit) ==
    /\ nsent < limit
    /\ \A o \in Owners : pc[o] = "idle" /\ rx[o] = <<>>
    /\ LET run == IF cmd.op = "MInsert" /\ InconsistentLen(Arrays(cmd))
                  THEN [hm |-> hm, out |-> <<>>, err |-> Some("InconsistentLen")]
                  ELSE Dispatch(hm, Parts(cmd), <<>>, now)
       IN  /\ hm' = run.hm
           /\ last' = [ev |-> "Cluster", cmd |-> cmd, out |-> run.out, err |-> run.err,
                       at |-> now]
    /\ nsent' = nsent + 1
    /\ UNCHANGED <<shape, expiration_policy, overflow_checks, nodes, scan, buffer, handles, vec,
                   replica_of, rx, pc,
                   resp_rx, now>>

ClusterKeys == {<<"a", "b">>, <<"a", "a">>, <<"c">>}

ClusterCmds ==
    [op : {"Insert"}, key : Keys, val : Vals, ex : WriteEx, nx : BOOLEAN]
    \cup [op : {"Get"}, key : Keys]
    \cup [op : {"MInsert"}, keys : {<<"a", "b">>}, vals : {<<1, 2>>},
          ex : {<<None, Some(1)>>, <<Some(1), Some(1)>>},
          nx : {<<FALSE, FALSE>>, <<TRUE, FALSE>>}]
    \cup [op : {"MInsert"}, keys : {<<"a", "b">>}, vals : {<<1, 2>>},
          ex : {<<None, None>>}, nx : {<<FALSE>>}]
    \cup [op : {"MGet", "Remove", "ContainsKey", "TTL"}, keys : ClusterKeys]

\* HashMapCacheCluster::new(expiration_policy, n_node): node i is a fresh map
InitCluster ==
    /\ shape = [o \in Owners |-> "hm"]
    /\ expiration_policy = [o \in Owners |-> PolicyNone]
    /\ overflow_checks = FALSE
    /\ \E n_node \in 0..Cardinality(Owners) :
            nodes = [i \in 0..(n_node - 1) |-> IF i = 0 THEN "p" ELSE "f"]
    /\ scan = NoScan
    /\ buffer = [o \in Owners |-> None]
    /\ handles = [o \in Owners |-> 1]
    /\ hm = [o \in Owners |-> EmptyMap]
    /\ vec = [o \in Owners |-> <<>>]
    /\ replica_of = [o \in Owners |-> None]
    /\ rx = [o \in Owners |-> <<>>]
    /\ pc = [o \in Owners |-> "idle"]
    /\ resp_rx = [o \in Owners |-> <<>>]
    /\ now = 0
    /\ nsent = 0
    /\ last = NoEvent
    /\ hist = NoHistory

\* hist.prev: the storage of every shard as the latest cluster call found it
ClusterRequest ==
    /\ \E cmd \in ClusterCmds : ClusterCall(cmd, MaxClusterCmds)
    /\ hist' = [hist EXCEPT !.prev = hm]

NextCluster == ClusterRequest \/ Maintain("p") \/ Maintain("f") \/ Elapse

SpecCluster == InitCluster /\ [][NextCluster]_vars

\* ------------------------------------ clusters of maps and of sets, get_all
\* the orders in which self.nodes.values() can yield the shards
Orders(ids) ==
    {order \in [1..Cardinality(ids) -> ids] : \A i \in ids : \E j \in DOMAIN order : order[j] = i}

\* (mutant) the reply of a shard replaces what the earlier shards replied
ExtendAllLatest(sh, res, r) == r

\* res.extend(reply) on the HashMap<K, V> (a later pair replaces an earlier one
\* of the same key) or on the HashSet<V> of get_all
ExtendAll(sh, res, r) ==
    IF sh = "hs" THEN res \cup r
    ELSE [k \in DOMAIN res \cup DOMAIN r |-> IF k \in DOMAIN r THEN r[k] ELSE res[k]]

\* for node in self.nodes.values() { node.tx.send(GetAll); res.extend(resp_rx.await?) }
RECURSIVE GetAllFrom(_, _, _, _)
GetAllFrom(stores, order, res, t) ==
    IF order = <<>> THEN [hm |-> stores, out |-> res, err |-> None]
    ELSE LET o == nodes[Head(order)]
             eff == Effect(shape[o], stores[o], None, [op |-> "GetAll"], t)
         IN  GetAllFrom([stores EXCEPT ![o] = eff.store], Tail(order),
                        ExtendAll(shape[o], res, eff.out), t)

\* get_all on the cluster handle while every shard is idle with an empty inbox
ClusterGetAll(limit) ==
    /\ nsent < limit
    /\ \A o \in Owners : pc[o] = "idle" /\ rx[o] = <<>>
    /\ \E order \in Orders(DOMAIN nodes) :
            LET run == GetAllFrom(hm, order, IF shape["p"] = "hs" THEN {} ELSE EmptyMap, now)
            IN  /\ hm' = run.hm
                /\ last' = [ev |-> "Cluster", cmd |-> [op |-> "GetAll"], out |-> run.out,
                            err |-> run.err, at |-> now]
    /\ nsent' = nsent + 1
    /\ UNCHANGED <<shape, expiration_policy, overflow_checks, nodes, scan, buffer, handles, vec,
                   replica_of, rx, pc,
                   resp_rx, now>>

UnionCmds(sh) ==
    IF sh = "hs" THEN [op : {"Insert"}, val : Keys, ex : WriteEx, nx : {None}]
    ELSE [op : {"Insert"}, key : Keys, val : {1}, ex : WriteEx, nx : {FALSE}]

\* HashMapCacheCluster::new / HashSetCacheCluster::new with n_node >= 1
InitUnion ==
    /\ shape \in {[o \in Owners |-> sh] : sh \in {"hm", "hs"}}
    /\ expiration_policy = [o \in Owners |-> PolicyNone]
    /\ overflow_checks = FALSE
    /\ \E n_node \in 1..Cardinality(Owners) :
            nodes = [i \in 0..(n_node - 1) |-> IF i = 0 THEN "p" ELSE "f"]
    /\ scan = NoScan
    /\ buffer = [o \in Owners |-> None]
    /\ handles = [o \in Owners |-> 1]
    /\ hm = [o \in Owners |-> EmptyMap]
    /\ vec = [o \in Owners |-> <<>>]
    /\ replica_of = [o \in Owners |-> None]
    /\ rx = [o \in Owners |-> <<>>]
    /\ pc = [o \in Owners |-> "idle"]
    /\ resp_rx = [o \in Owners |-> <<>>]
    /\ now = 0
    /\ nsent = 0
    /\ last = NoEvent
    /\ hist = NoHistory

UnionInsert ==
    \E cmd \in UnionCmds(shape["p"]) :
        /\ ClusterCall(cmd, MaxUnionCmds)
        /\ hist' = [hist EXCEPT !.prev = hm,
                                !.inserted = @ \cup {Parts(cmd)[1].key},
                                !.plain = @ /\ cmd.ex = None]

UnionGetAll == ClusterGetAll(MaxUnionCmds) /\ hist' = [hist EXCEPT !.prev = hm]

NextUnion == UnionInsert \/ UnionGetAll \/ Maintain("p") \/ Maintain("f") \/ Elapse

SpecUnion == InitUnion /\ [][NextUnion]_vars

\* ------------------ a map or a set whose callers may drop the reply channel
\* A command that is answered carries resp_rx, the caller's end of its oneshot
\* channel: "held" while the caller awaits it, "dropped" once the caller gave up.
ReplyDropped(cmd) == "resp_rx" \in DOMAIN cmd /\ cmd.resp_rx = "dropped"

\* (mutant) resp_tx.send(..).unwrap(): the owner panics when the receiver is gone
AfterReplyUnwrap(cmd) == IF ReplyDropped(cmd) THEN "panic" ELSE "continue"

\* if let Err(_) = resp_tx.send(..) { println!("the receiver dropped"); }
AfterReply(cmd) == "continue"

DropCmds(sh) ==
    IF sh = "hs"
    THEN [op : {"Insert"}, val : {"a", "b"}, ex : {None}, nx : {None}]
         \cup [op : {"Remove"}, vals : {<<"a">>, <<"a", "b">>}, resp_rx : {"held"}]
    ELSE [op : {"Insert"}, key : {"a", "b"}, val : Vals, ex : {None}, nx : {FALSE}]
         \cup [op : {"Remove"}, keys : {<<"a">>, <<"a", "b">>}, resp_rx : {"held"}]
         \cup [op : {"Get"}, key : {"a"}, resp_rx : {"held"}]

\* what a command does to the reference model: key -> Some(value) of the map,
\* value -> Some(TRUE) of the set
DropApply(md, cmd) ==
    CASE cmd.op = "Insert" /\ "key" \in DOMAIN cmd -> [md EXCEPT ![cmd.key] = Some(cmd.val)]
      [] cmd.op = "Insert" -> [md EXCEPT ![cmd.val] = Some(TRUE)]
      [] cmd.op = "Remove" ->
            LET listed == IF "keys" \in DOMAIN cmd THEN cmd.keys ELSE cmd.vals
            IN  [k \in Keys |-> IF \E i \in 1..Len(listed) : listed[i] = k THEN None ELSE md[k]]
      [] OTHER -> md

InitDrop == InitOwners({"hm", "hs"}, {PolicyNone}, {FALSE})

DropSend(o) ==
    /\ \E cmd \in DropCmds(shape[o]) : SendCmd(o, cmd, MaxCmds)
    /\ UNCHANGED hist

\* the caller of a waiting command drops resp_rx before the owner answers
DropReply(o) ==
    /\ \E i \in 1..Len(rx[o]) :
            /\ "resp_rx" \in DOMAIN rx[o][i]
            /\ rx[o][i].resp_rx = "held"
            /\ rx' = [rx EXCEPT ![o][i].resp_rx = "dropped"]
    /\ last' = NoEvent
    /\ UNCHANGED <<shape, expiration_policy, overflow_checks, nodes, scan, buffer, handles, hm, vec,
                   replica_of, pc,
                   resp_rx, now, nsent, hist>>

\* command = rx.recv(): the arm of the command, then what follows its reply
DropServe(o) ==
    /\ pc[o] = "idle"
    /\ rx[o] # <<>>
    /\ LET cmd == Dequeue(rx[o]).cmd
       IN  /\ IF AfterReply(cmd) = "panic"
              THEN /\ Panic(o, Effect(shape[o], Store(o), replica_of[o], cmd, now).store)
                   /\ UNCHANGED <<shape, expiration_policy, overflow_checks, nodes, scan, buffer, handles,
                                  replica_of, now>>
              ELSE Handle(o, cmd, Dequeue(rx[o]).rest)
           /\ hist' = [hist EXCEPT !.served[o] = DropApply(@, cmd), !.prev = Store(o)]
    /\ UNCHANGED nsent

NextDrop == DropSend("p") \/ DropReply("p") \/ DropServe("p") \/ Maintain("p")

SpecDrop == InitDrop /\ [][NextDrop]_vars

\* ------------------------- a bounded sequence, callers use the try_* forms
\* the inbox capacities given to new()
Buffers == {1, 2}

\* self.tx.try_send(cmd).map_err(|_| TokioActorCacheError::Send): the command
\* enters the inbox, or the call returns Send when the inbox is full or closed
TrySend(o, cmd, limit) ==
    /\ nsent < limit
    /\ nsent' = nsent + 1
    /\ IF Full(o) \/ pc[o] = "panicked"
       THEN /\ rx' = rx
            /\ last' = [ev |-> "Err", o |-> o, cmd |-> cmd, err |-> "Send", at |-> now]
       ELSE /\ rx' = [rx EXCEPT ![o] = Append(@, cmd)]
            /\ last' = NoEvent
    /\ UNCHANGED <<shape, expiration_policy, overflow_checks, nodes, scan, buffer, handles, hm, vec,
                   replica_of,
                   pc, resp_rx, now>>

\* the commands of the try_* calls; id tells the calls apart
TryCmds(id) ==
    [op : {"Push"}, val : Vals, ex : {None}, nx : {None}, id : {id}]
    \cup [op : {"Clear"}, id : {id}]

\* VecCache::new(ExpirationPolicy::None, buffer) of tokio_cache::bounded
InitTry ==
    /\ shape = [o \in Owners |-> "bvec"]
    /\ expiration_policy = [o \in Owners |-> PolicyNone]
    /\ overflow_checks = FALSE
    /\ nodes = EmptyMap
    /\ scan = NoScan
    /\ buffer \in {[o \in Owners |-> Some(n)] : n \in Buffers}
    /\ handles = [o \in Owners |-> 1]
    /\ hm = [o \in Owners |-> EmptyMap]
    /\ vec = [o \in Owners |-> <<>>]
    /\ replica_of = [o \in Owners |-> None]
    /\ rx = [o \in Owners |-> <<>>]
    /\ pc = [o \in Owners |-> "idle"]
    /\ resp_rx = [o \in Owners |-> <<>>]
    /\ now = 0
    /\ nsent = 0
    /\ last = NoEvent
    /\ hist = NoHistory

\* hist.prev: the storage and the inbox the latest try_* call found
TryCall(o) ==
    /\ \E cmd \in TryCmds(nsent) : TrySend(o, cmd, MaxCmds)
    /\ hist' = [hist EXCEPT !.prev = [store |-> Store(o), rx |-> rx[o]],
                            !.refused = IF last'.ev = "Err" THEN @ \cup {nsent} ELSE @]

TryServe(o) == Recv(o) /\ UNCHANGED hist

NextTry == TryCall("p") \/ TryServe("p") \/ Maintain("p")

SpecTry == InitTry /\ [][NextTry]_vars

\* ------------------------------ a map whose handles are dropped one by one
CloseCmds == [op : {"Insert"}, key : {"a", "b"}, val : Vals, ex : {None}, nx : {FALSE}]

\* HashMapCache::new returns the one handle Self { tx }; clone() adds handles
InitClose == InitOwners({"hm", "vec"}, {PolicyNone}, {FALSE})

\* a command sent through a live handle
CloseSend(o) ==
    /\ handles[o] > 0
    /\ \E cmd \in (IF shape[o] = "hm" THEN CloseCmds ELSE VecCmds({None})) :
            SendCmd(o, cmd, MaxCmds)
    /\ UNCHANGED hist

\* handle.clone()
CloneHandle(o) ==
    /\ handles[o] > 0
    /\ handles[o] < MaxHandles
    /\ handles' = [handles EXCEPT ![o] = @ + 1]
    /\ last' = NoEvent
    /\ UNCHANGED <<shape, expiration_policy, overflow_checks, nodes, scan, buffer, hm, vec, replica_of,
                   rx, pc, resp_rx, now, nsent, hist>>

\* a handle goes out of scope; with the last one the inbox is closed
DropHandle(o) ==
    /\ handles[o] > 0
    /\ handles' = [handles EXCEPT ![o] = @ - 1]
    /\ last' = NoEvent
    /\ UNCHANGED <<shape, expiration_policy, overflow_checks, nodes, scan, buffer, hm, vec, replica_of,
                   rx, pc, resp_rx, now, nsent, hist>>

CloseServe(o) == Recv(o) /\ UNCHANGED hist

\* command = rx.recv() => { if let Some(cmd) = command { .. } } on a closed and
\* drained inbox: recv() yields None, the body is skipped, the loop goes on
RecvNone(o) ==
    /\ pc[o] = "idle"
    /\ rx[o] = <<>>
    /\ handles[o] = 0
    /\ last' = [ev |-> "RecvNone", o |-> o, at |-> now]
    /\ UNCHANGED <<ownerVars, now, nsent, hist>>

NextClose ==
    \/ CloseSend("p") \/ CloneHandle("p") \/ DropHandle("p")
    \/ CloseServe("p") \/ RecvNone("p") \/ Maintain("p")

\* the owner task is scheduled again and again
SpecClose ==
    /\ InitClose
    /\ [][NextClose]_vars
    /\ WF_vars(CloseServe("p"))
    /\ WF_vars(RecvNone("p"))
    /\ WF_vars(Maintain("p"))

\* --------------------- two maps, each may be told to replicate any handle
TopoCmds ==
    [op : {"Replicate"}, master : Owners]
    \cup {[op |-> "StopReplicating"]}
    \cup [op : {"Insert"}, key : {"a"}, val : {1}, ex : {None}, nx : {FALSE}]

InitTopo == InitOwners({"hm"}, {PolicyNone}, {FALSE})

TopoSend(o) ==
    /\ \E cmd \in TopoCmds : SendCmd(o, cmd, MaxCmds)
    /\ UNCHANGED hist

TopoServe(o) == Recv(o) /\ UNCHANGED hist

NextTopo ==
    \/ TopoSend("p") \/ TopoSend("f")
    \/ TopoServe("p") \/ TopoServe("f")
    \/ Maintain("p") \/ Maintain("f")
    \/ Pull("p") \/ Pull("f")
    \/ Resume("p") \/ Resume("f")

\* both owner tasks are scheduled again and again, and their tickers fire
SpecTopo ==
    /\ InitTopo
    /\ [][NextTopo]_vars
    /\ \A o \in Owners :
            /\ WF_vars(TopoServe(o))
            /\ WF_vars(Maintain(o))
            /\ WF_vars(Pull(o))
            /\ WF_vars(Resume(o))

\* ------ a primary map without policy and a follower map with any policy, TTLs
FollowCmds(o) ==
    IF o = "f" THEN {[op |-> "Replicate", master |-> "p"]}
    ELSE [op : {"Insert"}, key : {"a"}, val : {1}, ex : WriteEx, nx : {FALSE}]
         \cup [op : {"MInsert"}, keys : {<<"a", "b", "c">>}, vals : {<<1, 1, 1>>},
               ex : {<<None, None, None>>, <<Some(1), None, Some(2)>>},
               nx : {<<FALSE, FALSE, FALSE>>}]

\* HashMapCache::new(ExpirationPolicy::None) and HashMapCache::new(policy)
InitFollow ==
    /\ shape = [o \in Owners |-> "hm"]
    /\ expiration_policy \in {[o \in Owners |-> IF o = "f" THEN policy ELSE PolicyNone] :
                                policy \in Policies}
    /\ overflow_checks \in BOOLEAN
    /\ nodes = EmptyMap
    /\ scan = NoScan
    /\ buffer = [o \in Owners |-> None]
    /\ handles = [o \in Owners |-> 1]
    /\ hm = [o \in Owners |-> EmptyMap]
    /\ vec = [o \in Owners |-> <<>>]
    /\ replica_of = [o \in Owners |-> None]
    /\ rx = [o \in Owners |-> <<>>]
    /\ pc = [o \in Owners |-> "idle"]
    /\ resp_rx = [o \in Owners |-> <<>>]
    /\ now = 0
    /\ nsent = 0
    /\ last = NoEvent
    /\ hist = NoHistory

FollowCall(o) ==
    /\ \E cmd \in FollowCmds(o) : Call(o, cmd, MaxCmds)
    /\ UNCHANGED hist

\* the primary serves a waiting GetAllRaw
FollowServe(o) == Recv(o) /\ UNCHANGED hist

NextFollow ==
    \/ FollowCall("p") \/ FollowCall("f")
    \/ FollowServe("p")
    \/ Maintain("p") \/ Maintain("f")
    \/ Pull("f") \/ Resume("f")
    \/ Elapse

SpecFollow == InitFollow /\ [][NextFollow]_vars

\* ------------- a follower whose primary panics or has a full bounded inbox
\* maps: unbounded inboxes, a build with overflow checks, the primary under
\* LRU(1) (its tick panics while it is empty); bounded sets: inboxes of one
\* command, no policy
InitPullFail ==
    /\ shape \in {[o \in Owners |-> sh] : sh \in {"hm", "bhs"}}
    /\ expiration_policy \in
            {[o \in Owners |-> IF shape["p"] = "bhs" THEN PolicyNone
                               ELSE IF o = "p" THEN [kind |-> "LRU", capacity |-> 1]
                               ELSE policy] :
                policy \in {PolicyNone, [kind |-> "LRU", capacity |-> 1]}}
    /\ overflow_checks = (shape["p"] = "hm")
    /\ nodes = EmptyMap
    /\ scan = NoScan
    /\ buffer = [o \in Owners |-> IF shape["p"] = "bhs" THEN Some(1) ELSE None]
    /\ handles = [o \in Owners |-> 1]
    /\ hm = [o \in Owners |-> EmptyMap]
    /\ vec = [o \in Owners |-> <<>>]
    /\ replica_of = [o \in Owners |-> None]
    /\ rx = [o \in Owners |-> <<>>]
    /\ pc = [o \in Owners |-> "idle"]
    /\ resp_rx = [o \in Owners |-> <<>>]
    /\ now = 0
    /\ nsent = 0
    /\ last = NoEvent
    /\ hist = NoHistory

PullFailCmds(o) ==
    LET items == IF o = "f" THEN {<<"a", Some(1)>>, <<"b", None>>} ELSE {<<"a", None>>}
    IN  (IF o = "f" THEN {[op |-> "Replicate", master |-> "p"]} ELSE {})
        \cup (IF shape[o] = "bhs"
              THEN {[op |-> "Insert", val |-> i[1], ex |-> i[2], nx |-> None] : i \in items}
              ELSE {[op |-> "Insert", key |-> i[1], val |-> 1, ex |-> i[2], nx |-> FALSE] :
                        i \in items})

\* a caller's command: tx.send on the unbounded inbox, tx.try_send on the bounded
PullFailSend(o) ==
    /\ \E cmd \in PullFailCmds(o) :
            IF buffer[o] = None THEN SendCmd(o, cmd, MaxPullCmds)
            ELSE TrySend(o, cmd, MaxPullCmds)
    /\ UNCHANGED hist

PullFailServe(o) == Recv(o) /\ UNCHANGED hist

\* hist.prev: the follower's storage when its tick began
PullFailPull(o) == TickPull(o) /\ hist' = [hist EXCEPT !.prev = Store(o)]

NextPullFail ==
    \/ PullFailSend("p") \/ PullFailSend("f")
    \/ PullFailServe("p") \/ PullFailServe("f")
    \/ Maintain("p") \/ Maintain("f")
    \/ PullFailPull("f") \/ Resume("f")
    \/ Elapse

SpecPullFail == InitPullFail /\ [][NextPullFail]_vars

\* ------------- one standalone map or set, policy None: reads and inserts
ReadKeys == {<<"a", "b">>, <<"a", "a">>, <<"c">>}

ReadCmds(sh) ==
    IF sh = "hm"
    THEN [op : {"Insert"}, key : {"a", "b"}, val : {1}, ex : WriteEx, nx : BOOLEAN]
         \cup [op : {"Get"}, key : {"a", "c"}]
         \cup [op : {"MGet", "ContainsKey", "TTL"}, keys : ReadKeys]
         \cup [op : {"GetAll"}]
    ELSE [op : {"Insert"}, val : {"a", "b"}, ex : {None}, nx : {None}]
         \cup [op : {"GetAll"}]

InitRead == InitOwners({"hm", "hs"}, {PolicyNone}, {FALSE})

\* a handle method and the owner's service of its command
Read(o) ==
    /\ \E cmd \in ReadCmds(shape[o]) : Call(o, cmd, MaxCmds)
    /\ hist' = [hist EXCEPT !.prev = Store(o)]

NextRead == Read("p") \/ Maintain("p") \/ Elapse

SpecRead == InitRead /\ [][NextRead]_vars

\* ------------- one standalone sequence, every policy: pushes and get_all
SeqCmds ==
    [op : {"Push"}, val : Vals, ex : {None}, nx : {FALSE}]
    \cup {[op |-> "Push", val |-> 1, ex |-> Some(1), nx |-> FALSE],
          [op |-> "Push", val |-> 1, ex |-> None, nx |-> TRUE]}
    \cup [op : {"GetAll"}]

InitSeq ==
    InitOwners({"vec"}, {PolicyNone, [kind |-> "LRU", capacity |-> 1],
                         [kind |-> "LFU", capacity |-> 2]}, {FALSE})

\* push / get_all of a handle and the owner's service of the command
SeqCall(o) ==
    /\ \E cmd \in SeqCmds :
            /\ Call(o, cmd, MaxSeqCmds)
            /\ hist' = [hist EXCEPT
                    !.prev = Store(o),
                    !.pushed = IF Len(vec'[o]) > Len(vec[o]) THEN Append(@, cmd.val) ELSE @]

NextSeq == SeqCall("p") \/ Maintain("p") \/ Elapse

SpecSeq == InitSeq /\ [][NextSeq]_vars

\* ------- a standalone map or sequence whose callers never stop sending
\* commands after which storage is one of finitely many: writes that take
\* effect on absent keys only, and the commands that empty storage
ExpireCmds(sh) ==
    IF sh = "hm"
    THEN [op : {"Insert"}, key : {"a", "b"}, val : {1}, ex : WriteEx, nx : {TRUE}]
         \cup {[op |-> "Remove", keys |-> <<"a">>], [op |-> "Clear"]}
    ELSE [op : {"Push"}, val : Vals, ex : WriteEx, nx : {TRUE}]
         \cup {[op |-> "Clear"]}

\* a handle method and the owner's service of its command; callers are not
\* limited in the number of commands they send
ExpireCall(o) ==
    /\ pc[o] = "idle"
    /\ rx[o] = <<>>
    /\ \E cmd \in ExpireCmds(shape[o]) : Handle(o, cmd, <<>>)
    /\ UNCHANGED <<nsent, hist>>

NextExpire == ExpireCall("p") \/ Maintain("p") \/ Elapse

\* the tick branch of select! is taken again and again, and time passes
SpecExpire ==
    /\ InitClose
    /\ [][NextExpire]_vars
    /\ WF_vars(Maintain("p"))
    /\ WF_vars(Elapse)

\* ---------- a cluster whose get_all visits the shards one after another
\* while other callers insert through the cluster
\* what the shards hold together: key -> value, or the set of values
Contents(stores) ==
    LET owners == {nodes[i] : i \in DOMAIN nodes}
        keys == UNION {DOMAIN stores[o] : o \in owners}
    IN  IF shape["p"] = "hs" THEN keys
        ELSE [k \in keys |-> stores[CHOOSE o \in owners : k \in DOMAIN stores[o]][k].val]

\* get_all is called: let mut res = HashMap::new(); the iterator
\* self.nodes.values() will yield the shards in some order
ScanStart ==
    /\ nsent < MaxUnionCmds
    /\ scan.pc = "idle"
    /\ \E order \in Orders(DOMAIN nodes) :
            scan' = [pc |-> "visiting", left |-> order,
                     res |-> IF shape["p"] = "hs" THEN {} ELSE EmptyMap]
    /\ nsent' = nsent + 1
    /\ last' = NoEvent
    /\ hist' = [hist EXCEPT !.seen = {Contents(hm)}]
    /\ UNCHANGED <<shape, expiration_policy, overflow_checks, nodes, buffer, handles, hm, vec,
                   replica_of, rx, pc, resp_rx, now>>

\* one turn of the loop: node.tx.send(GetAll), the shard serves it,
\* res.extend(resp_rx.await?); after the last shard, Ok(res)
ScanVisit ==
    /\ scan.pc = "visiting"
    /\ LET o == nodes[Head(scan.left)]
           eff == Effect(shape[o], hm[o], None, [op |-> "GetAll"], now)
           res == ExtendAll(shape[o], scan.res, eff.out)
       IN  /\ pc[o] = "idle" /\ rx[o] = <<>>
           /\ hm' = [hm EXCEPT ![o] = eff.store]
           /\ IF Tail(scan.left) = <<>>
              THEN /\ scan' = NoScan
                   /\ last' = [ev |-> "Cluster", cmd |-> [op |-> "GetAll"], out |-> res,
                               err |-> None, at |-> now]
              ELSE /\ scan' = [scan EXCEPT !.left = Tail(@), !.res = res]
                   /\ last' = NoEvent
    /\ UNCHANGED <<shape, expiration_policy, overflow_checks, nodes, buffer, handles, vec,
                   replica_of, rx, pc, resp_rx, now, nsent, hist>>

\* another caller's insert on the cluster handle
ScanInsert ==
    \E cmd \in UnionCmds(shape["p"]) :
        /\ ClusterCall(cmd, MaxUnionCmds)
        /\ hist' = [hist EXCEPT
                !.seen = IF scan.pc = "visiting" THEN @ \cup {Contents(hm')} ELSE @]

NextScan == ScanStart \/ ScanVisit \/ ScanInsert

SpecScan == InitUnion /\ [][NextScan]_vars

\* ===================================================== properties
\* an entry whose deadline is at or before t
Expired(e, t) == e.expiration # None /\ e.expiration[1] <= t

Ticked(o) == last.ev = "Tick" /\ last.o = o
Replied(o, ops) == last.ev = "Recv" /\ last.o = o /\ last.cmd.op \in ops

\* the keys of m whose entries are not expired at t
LiveKeys(m, t) == {k \in DOMAIN m : ~Expired(m[k], t)}

\* the value stored under each key, None for the keys not stored
Values(m) == [k \in Keys |-> IF k \in DOMAIN m THEN Some(m[k].val) ELSE None]

\* storage st after the owner has served every command of inbox q, oldest first
RECURSIVE Drain(_, _, _, _)
Drain(sh, st, q, t) ==
    IF q = <<>> THEN st
    ELSE Drain(sh, Effect(sh, st, None, Head(q), t).store, Tail(q), t)

\* C1: in a standalone map without TTL every get(key) returns the value of the
\* latest insert of that key the owner served before it, none if there was no
\* such insert or a remove or clear of the key was served after it.
C1_GetReturnsLastInsert ==
    Replied("p", {"Get"}) => last.out = hist.served["p"][last.cmd.key]

\* C1 witness: a get that returns the second of two inserted values
C1_Witness ==
    /\ Replied("p", {"Get"}) /\ last.out = Some(2)
    /\ hm["p"][last.cmd.key].call_cnt = 2

\* C2: the owner applies commands in the order they were sent: what storage
\* holds once the waiting commands are served, oldest first, is what the
\* commands sent so far give when applied in send order; so a get sent after
\* an insert observes it.
C2_AppliedInSendOrder ==
    \A o \in Owners : Values(Drain(shape[o], hm[o], rx[o], now)) = hist.sent[o]

\* C2 witness: a get returns the value of the insert sent before it while a
\* later command is still waiting in the inbox
C2_Witness ==
    /\ Replied("p", {"Get"}) /\ last.out # None
    /\ hm["p"][last.cmd.key].call_cnt = 1
    /\ rx["p"] # <<>>

\* C3: after a completed tick no stored entry has a deadline at or before the
\* tick time, and the TTL sweep kept every entry without a deadline or with a
\* deadline still in the future, unchanged (and, in a sequence, in order).
C3_TickSweepsExactlyExpired ==
    \A o \in Owners : Ticked(o) =>
        IF shape[o] = "vec"
        THEN /\ \A i \in 1..Len(vec[o]) : ~Expired(vec[o][i], last.at)
             /\ LET Fresh(e) == ~Expired(e, last.at)
                IN  last.swept = SelectSeq(last.before, Fresh)
        ELSE /\ \A k \in DOMAIN hm[o] : ~Expired(hm[o][k], last.at)
             /\ DOMAIN last.swept = LiveKeys(last.before, last.at)
             /\ \A k \in DOMAIN last.swept : last.swept[k] = last.before[k]

\* C3 witness: a tick that met one expired entry and one entry with a later deadline
C3_Witness ==
    /\ Ticked("p") /\ shape["p"] = "hm"
    /\ \E k \in DOMAIN last.before : Expired(last.before[k], last.at)
    /\ \E k \in DOMAIN hm["p"] : hm["p"][k].expiration # None

\* C4 (as claimed): a key that get, mget or contains_key reports present has
\* no deadline that passed before the command is served.
C4_ReadsHideExpired ==
    Replied("p", {"Get", "MGet", "ContainsKey"}) =>
        LET keys == IF last.cmd.op = "Get" THEN <<last.cmd.key>> ELSE last.cmd.keys
            outs == IF last.cmd.op = "Get" THEN <<last.out>> ELSE last.out
            Present(out) == IF last.cmd.op = "ContainsKey" THEN out ELSE out # None
        IN  \A i \in 1..Len(keys) :
                Present(outs[i]) =>
                    LET e == hm["p"][keys[i]]
                    IN  e.expiration = None \/ last.at <= e.expiration[1]

\* C5: a completed tick of a map or set under LRU(C) / LFU(C) leaves at most C entries.
C5_TickBoundsMapAndSet ==
    \A o \in Owners :
        (Ticked(o) /\ shape[o] \in {"hm", "hs"} /\ expiration_policy[o].kind # "None")
            => Cardinality(DOMAIN hm[o]) <= expiration_policy[o].capacity

\* C5 witness: a tick of a set that started two entries above its capacity
C5_Witness ==
    /\ Ticked("p") /\ shape["p"] = "hs" /\ expiration_policy["p"].kind # "None"
    /\ Cardinality(DOMAIN last.swept) >= expiration_policy["p"].capacity + 2

\* C6 (as claimed): a completed tick of a sequence under LRU(C) / LFU(C)
\* leaves at most C entries.
C6_TickBoundsSequence ==
    \A o \in Owners :
        (Ticked(o) /\ shape[o] = "vec" /\ expiration_policy[o].kind # "None")
            => Len(vec[o]) <= expiration_policy[o].capacity

\* the tick of map owner o, policy kind, that started with more than C live entries
TickOver(o, kind) ==
    /\ Ticked(o) /\ shape[o] = "hm" /\ expiration_policy[o].kind = kind
    /\ Cardinality(LiveKeys(last.before, last.at)) > expiration_policy[o].capacity

\* C7: under LRU(C) a tick that starts with more than C live entries keeps
\* exactly C of them, none accessed earlier than an entry it evicted.
C7_LruKeepsMostRecent ==
    \A o \in Owners : TickOver(o, "LRU") =>
        /\ Cardinality(DOMAIN hm[o]) = expiration_policy[o].capacity
        /\ DOMAIN hm[o] \subseteq LiveKeys(last.before, last.at)
        /\ \A k \in DOMAIN hm[o] : \A j \in LiveKeys(last.before, last.at) \ DOMAIN hm[o] :
               /\ hm[o][k] = last.before[k]
               /\ last.before[k].last_accessed >= last.before[j].last_accessed

\* C7 witness: LRU(1) evicted two entries, one of them accessed strictly earlier
C7_Witness ==
    /\ TickOver("p", "LRU")
    /\ Cardinality(LiveKeys(last.before, last.at)) = Cardinality(DOMAIN hm["p"]) + 2
    /\ \E k \in DOMAIN hm["p"] : \E j \in DOMAIN last.before \ DOMAIN hm["p"] :
           last.before[k].last_accessed > last.before[j].last_accessed

\* C8: under LFU(C) a tick that starts with more than C live entries keeps
\* exactly C of them, none with a smaller access count than an entry it evicted.
C8_LfuKeepsMostUsed ==
    \A o \in Owners : TickOver(o, "LFU") =>
        /\ Cardinality(DOMAIN hm[o]) = expiration_policy[o].capacity
        /\ DOMAIN hm[o] \subseteq LiveKeys(last.before, last.at)
        /\ \A k \in DOMAIN hm[o] : \A j \in LiveKeys(last.before, last.at) \ DOMAIN hm[o] :
               /\ hm[o][k] = last.before[k]
               /\ last.before[k].call_cnt >= last.before[j].call_cnt

\* C8 witness: insert(a), insert(a), insert(b) under LFU(1), then a tick: a survives
C8_Witness ==
    /\ TickOver("p", "LFU") /\ expiration_policy["p"].capacity = 1
    /\ DOMAIN last.before = {"a", "b"}
    /\ last.before["a"].call_cnt = 1 /\ last.before["b"].call_cnt = 0
    /\ DOMAIN hm["p"] = {"a"}

\* C9: when a tick of follower f whose pull succeeded completes (policy None,
\* no TTL), f's key/value contents are those of the primary at the moment the
\* primary served that tick's GetAllRaw.
C9_FollowerEqualsSnapshot ==
    (Ticked("f") /\ last.pulled = "ok") => Values(hm["f"]) = hist.snap["f"]

\* C9 witness: such a tick brought a key into the follower
C9_Witness ==
    Ticked("f") /\ last.pulled = "ok" /\ "a" \in DOMAIN hm["f"]

\* C10 (as claimed): once stop_replicating has returned Ok, the follower never
\* shows a primary mutation made after that return: a value its get returns
\* once the stop is in effect was inserted into the primary before the return.
C10_StopHidesLaterMutations ==
    (/\ hist.stop_seen["f"] # None /\ replica_of["f"] = None
     /\ Replied("f", {"Get"}) /\ last.out # None)
        => <<last.cmd.key, last.out[1]>> \in hist.stop_seen["f"][1]

\* the arguments of a served insert / minsert as arrays
ArgKeys(cmd) == IF cmd.op = "Insert" THEN <<cmd.key>> ELSE cmd.keys
ArgVals(cmd) == IF cmd.op = "Insert" THEN <<cmd.val>> ELSE cmd.vals
ArgNx(cmd) == IF cmd.op = "Insert" THEN <<cmd.nx>> ELSE cmd.nx
Occurs(cmd, k) == {i \in 1..Len(ArgKeys(cmd)) : ArgKeys(cmd)[i] = k}

\* C11: after the map owner served insert / minsert, a key that was present and
\* was passed with nx=true only has its value, expiration, access count and
\* last access unchanged; a key that was absent and was passed with nx=true
\* only holds the first value passed for it, with access count 0.
C11_NxKeepsPresentKey ==
    (Replied("p", {"Insert", "MInsert"}) /\ shape["p"] = "hm") =>
        \A k \in Keys :
            (Occurs(last.cmd, k) # {} /\ \A i \in Occurs(last.cmd, k) : ArgNx(last.cmd)[i]) =>
                IF k \in DOMAIN hist.prev
                THEN k \in DOMAIN hm["p"] /\ hm["p"][k] = hist.prev[k]
                ELSE /\ k \in DOMAIN hm["p"]
                     /\ hm["p"][k].call_cnt = 0
                     /\ \E i \in Occurs(last.cmd, k) :
                            /\ \A j \in Occurs(last.cmd, k) : i <= j
                            /\ hm["p"][k].val = ArgVals(last.cmd)[i]

\* C11 witness: insert with nx=true, another value and a TTL, of a key that
\* was present with a different value and had been read
C11_Witness ==
    /\ Replied("p", {"Insert"}) /\ shape["p"] = "hm" /\ last.cmd.nx
    /\ last.cmd.key \in DOMAIN hist.prev
    /\ hist.prev[last.cmd.key].call_cnt > 0
    /\ hist.prev[last.cmd.key].val # last.cmd.val
    /\ last.cmd.ex # None

\* C12 (as claimed): after the set owner served insert(value, ex, nx=true) of
\* a value that was present, the value's expiration and access count are
\* what they were.
C12_SetInsertNxKeepsPresentValue ==
    (/\ Replied("p", {"Insert"}) /\ shape["p"] = "hs"
     /\ last.cmd.nx = Some(TRUE) /\ last.cmd.val \in DOMAIN hist.prev) =>
        /\ hm["p"][last.cmd.val].expiration = hist.prev[last.cmd.val].expiration
        /\ hm["p"][last.cmd.val].call_cnt = hist.prev[last.cmd.val].call_cnt

\* C13: a multi-argument call returns InconsistentLen exactly when its
\* argument arrays are not all of the same length, and then nothing was sent
\* and storage is what it was; a call the owner served had arrays of one length.
C13_InconsistentLenWithoutMutation ==
    /\ last.ev = "Err" =>
          /\ last.err = "InconsistentLen"
          /\ \E i, j \in 1..Len(Arrays(last.cmd)) :
                 Len(Arrays(last.cmd)[i]) # Len(Arrays(last.cmd)[j])
          /\ Store(last.o) = hist.prev
          /\ rx[last.o] = <<>>
    /\ Replied("p", {"MInsert", "MPush"}) =>
          \A i, j \in 1..Len(Arrays(last.cmd)) :
              Len(Arrays(last.cmd)[i]) = Len(Arrays(last.cmd)[j])

\* C13 witness: a refused call whose first arrays agree and whose last one
\* is shorter, made on a non-empty container
C13_Witness ==
    /\ last.ev = "Err"
    /\ Len(Arrays(last.cmd)[1]) = Len(Arrays(last.cmd)[2])
    /\ Len(last.cmd.nx) < Len(last.cmd.ex)
    /\ Store(last.o) # EmptyMap /\ Store(last.o) # <<>>

\* the values of a sequence, in order
SeqVals(v) == [i \in 1..Len(v) |-> v[i].val]
InSeq(vals, x) == \E i \in 1..Len(vals) : vals[i] = x

\* C14 (as claimed): after the sequence owner served remove(values) no stored
\* entry has one of the values, the reply is true exactly for the inputs that
\* had a matching entry, and the other entries remain in their order.
C14_SeqRemoveTakesOutMatches ==
    (Replied("p", {"Remove"}) /\ IsSeq(shape["p"])) =>
        LET Other(e) == ~InSeq(last.cmd.vals, e.val)
        IN  /\ \A i \in 1..Len(vec["p"]) : Other(vec["p"][i])
            /\ \A i \in 1..Len(last.cmd.vals) :
                   last.out[i] = InSeq(SeqVals(hist.prev), last.cmd.vals[i])
            /\ SeqVals(vec["p"]) = SeqVals(SelectSeq(hist.prev, Other))

\* nx of a served push is set: `true` in the unbounded, Some(true) in the bounded sequence
NxSet(sh, cmd) == IF sh = "vec" THEN cmd.nx ELSE cmd.nx = Some(TRUE)

\* C15 (as claimed): push with nx set of a value already stored leaves the
\* sequence unchanged; every other push appends exactly one entry at the end
\* and leaves the existing entries as they were.
C15_PushAppendsUnlessNxPresent ==
    (Replied("p", {"Push"}) /\ IsSeq(shape["p"])) =>
        IF NxSet(shape["p"], last.cmd) /\ InSeq(SeqVals(hist.prev), last.cmd.val)
        THEN vec["p"] = hist.prev
        ELSE /\ Len(vec["p"]) = Len(hist.prev) + 1
             /\ SubSeq(vec["p"], 1, Len(hist.prev)) = hist.prev
             /\ vec["p"][Len(vec["p"])].val = last.cmd.val

\* C16 (as claimed): the reply of the sequence's ttl(values) has one element
\* per input, in input order: the remaining time of the first stored entry
\* equal to the input when that entry has an unexpired deadline, else none.
C16_SeqTtlOnePerInput ==
    (Replied("p", {"TTL"}) /\ IsSeq(shape["p"])) =>
        /\ Len(last.out) = Len(last.cmd.vals)
        /\ \A i \in 1..Len(last.cmd.vals) :
               LET found == FirstIdx({j \in 1..Len(hist.prev) :
                                         hist.prev[j].val = last.cmd.vals[i]})
               IN  last.out[i] = IF found = 0 THEN None
                                 ELSE Remaining(hist.prev[found].expiration, last.at)

\* the stored entries of value x in the set of owner o
SetEntries(o, x) ==
    IF shape[o] = "bhs" THEN {e \in DOMAIN hm[o] : e.val = x}
    ELSE {k \in DOMAIN hm[o] : k = x}

\* C17 (as claimed): the storage of a set holds at most one entry per value.
C17_SetOneEntryPerValue ==
    \A o \in Owners : shape[o] \in {"hs", "bhs"} =>
        \A x \in Keys : Cardinality(SetEntries(o, x)) <= 1


\* the number of shards of the cluster
NShards == Cardinality(DOMAIN nodes)

\* the shard id CRC-16/XMODEM gives key k among n shards: the checksums of
\* "a", "b", "c" are 0x7C87, 0x4CE4, 0x5CC5
ShardId(k, n) ==
    (CASE k = "a" -> 31879 [] k = "b" -> 19684 [] k = "c" -> 23749) % n

\* the owner that holds shard ShardId(k, NShards)
ShardOf(k) == nodes[ShardId(k, NShards)]

ClusterReplied(ops) == last.ev = "Cluster" /\ last.cmd.op \in ops

\* the entry stored under k, None if k is not stored
Entry(m, k) == IF k \in DOMAIN m THEN Some(m[k]) ELSE None

\* C18: in a cluster of N >= 1 map shards a key is only ever stored in the
\* shard with id hash_id(str(k), N); a cluster insert or get of k succeeds,
\* leaves every other shard as it was, insert has the effect of the map's
\* insert on that shard and get replies the value that shard holds for k.
C18_SingleKeyRoutedByHashId ==
    NShards >= 1 =>
        /\ \A o \in Owners : \A k \in DOMAIN hm[o] :
                ShardId(k, NShards) \in DOMAIN nodes /\ ShardOf(k) = o
        /\ ClusterReplied({"Insert", "Get"}) =>
                LET k == last.cmd.key
                    own == ShardOf(k)
                IN  /\ last.err = None
                    /\ \A o \in Owners \ {own} : hm[o] = hist.prev[o]
                    /\ last.cmd.op = "Get" => last.out = Values(hist.prev[own])[k]
                    /\ last.cmd.op = "Insert" =>
                            hm[own] = HmInsert(hist.prev[own], k, last.cmd.val,
                                               last.cmd.ex, last.cmd.nx, last.at)

\* C18 witness: in a cluster of two shards get("a") replied the value that
\* was inserted, and "a" is stored in shard 1 only.
C18_Witness ==
    /\ NShards = 2
    /\ ClusterReplied({"Get"})
    /\ last.cmd.key = "a"
    /\ last.out = Some(2)
    /\ "a" \in DOMAIN hm[nodes[1]]
    /\ "a" \notin DOMAIN hm[nodes[0]]

\* C19 (as claimed): after a cluster minsert with arrays of equal lengths,
\* each key that is listed once has on its shard the entry that
\* insert(keys[i], vals[i], ex[i], nx[i]) would have left.
C19_ClusterMInsertPerKeyArguments ==
    (NShards >= 1 /\ ClusterReplied({"MInsert"}) /\ last.err = None) =>
        \A i \in 1..Len(last.cmd.keys) :
            LET k == last.cmd.keys[i]
                own == ShardOf(k)
            IN  Occurs(last.cmd, k) = {i} =>
                    Entry(hm[own], k)
                        = Entry(HmInsert(hist.prev[own], k, last.cmd.vals[i], last.cmd.ex[i],
                                         last.cmd.nx[i], last.at), k)

\* C20: cluster mget, remove, contains_key and ttl succeed with one answer per
\* listed key, in the order of the keys: the value, presence or remaining time
\* the key's shard had for it, none for an absent key, and for remove none for
\* a key that was listed earlier in the same call.
C20_ClusterMultiRepliesAligned ==
    (NShards >= 1 /\ ClusterReplied({"MGet", "Remove", "ContainsKey", "TTL"})) =>
        /\ last.err = None
        /\ Len(last.out) = Len(last.cmd.keys)
        /\ \A i \in 1..Len(last.cmd.keys) :
                LET k == last.cmd.keys[i]
                    st == hist.prev[ShardOf(k)]
                    present == k \in DOMAIN st
                    earlier == \E j \in 1..(i - 1) : last.cmd.keys[j] = k
                IN  last.out[i] =
                        CASE last.cmd.op = "MGet" -> IF present THEN Some(st[k].val) ELSE None
                          [] last.cmd.op = "Remove" ->
                                IF present /\ ~earlier THEN Some(st[k].val) ELSE None
                          [] last.cmd.op = "ContainsKey" -> present
                          [] last.cmd.op = "TTL" ->
                                IF present THEN Remaining(st[k].expiration, last.at) ELSE None

\* C20 witness: in a cluster of two shards remove(["a", "a"]) replied the
\* value of "a", then none.
C20_Witness ==
    /\ NShards = 2
    /\ ClusterReplied({"Remove"})
    /\ last.cmd.keys = <<"a", "a">>
    /\ last.out[1] # None
    /\ last.out[2] = None


\* the owners that are shards of the cluster
Shards == {nodes[i] : i \in DOMAIN nodes}

RECURSIVE SumSizes(_)
SumSizes(owners) ==
    IF owners = {} THEN 0
    ELSE LET o == CHOOSE x \in owners : TRUE
         IN  Cardinality(DOMAIN hm[o]) + SumSizes(owners \ {o})

\* the items a get_all reply holds: the keys of the map, the values of the set
Items(out) == IF shape["p"] = "hs" THEN out ELSE DOMAIN out

\* C21: in a cluster of N >= 1 shards no item is stored in two shards; while
\* the cluster only served inserts without expiration and get_all, the sum of
\* the shards' sizes is the number of distinct items inserted, and get_all
\* replies exactly those items.
C21_ShardSizesSumToInserted ==
    /\ \A x \in Keys : Cardinality({o \in Shards : x \in DOMAIN hm[o]}) <= 1
    /\ hist.plain =>
            /\ SumSizes(Shards) = Cardinality(hist.inserted)
            /\ ClusterReplied({"GetAll"}) =>
                    last.err = None /\ Items(last.out) = hist.inserted

\* C21 witness: get_all of a cluster of two sets replied the two values that
\* were inserted, one stored in each shard.
C21_Witness ==
    /\ NShards = 2
    /\ shape["p"] = "hs"
    /\ hist.plain
    /\ ClusterReplied({"GetAll"})
    /\ last.out = {"a", "b"}
    /\ DOMAIN hm[nodes[0]] = {"b"}
    /\ DOMAIN hm[nodes[1]] = {"a"}


\* C22 (as claimed): on a cluster of no shards every keyed call that reaches
\* the routing returns the error NodeNotExists.
C22_EmptyClusterNodeNotExists ==
    (NShards = 0 /\ ClusterReplied({"Insert", "Get", "MInsert", "MGet", "Remove",
                                    "ContainsKey", "TTL"})
                 /\ last.err # Some("InconsistentLen")) =>
        last.err = Some("NodeNotExists")


\* C23: the owner of a map or set whose callers may drop their reply channels
\* never panics and its storage holds exactly the items of the commands it
\* served; a served remove took every listed item out and computed the answer
\* of each, and a served get computed the value last inserted, whether or not
\* the caller still held the reply channel.
C23_DroppedReplyStillApplied ==
    /\ pc["p"] = "idle"
    /\ DOMAIN hm["p"] = {k \in Keys : hist.served["p"][k] # None}
    /\ Replied("p", {"Remove"}) =>
            LET listed == IF shape["p"] = "hs" THEN last.cmd.vals ELSE last.cmd.keys
            IN  /\ \A i \in 1..Len(listed) : listed[i] \notin DOMAIN hm["p"]
                /\ \A k \in DOMAIN hist.prev :
                        (\A i \in 1..Len(listed) : listed[i] # k) =>
                            k \in DOMAIN hm["p"] /\ hm["p"][k] = hist.prev[k]
                /\ Len(last.out) = Len(listed)
                /\ \A i \in 1..Len(listed) :
                        LET had == listed[i] \in DOMAIN hist.prev
                                   /\ \A j \in 1..(i - 1) : listed[j] # listed[i]
                        IN  last.out[i] = IF shape["p"] = "hs" THEN had
                                          ELSE IF had THEN Some(hist.prev[listed[i]].val)
                                          ELSE None
    /\ Replied("p", {"Get"}) => last.out = hist.served["p"][last.cmd.key]

\* C23 witness: the owner served a remove of a stored item whose caller had
\* dropped the reply channel, with a later command waiting in the inbox.
C23_Witness ==
    /\ Replied("p", {"Remove"})
    /\ ReplyDropped(last.cmd)
    /\ hist.prev # EmptyMap
    /\ hm["p"] = EmptyMap
    /\ rx["p"] # <<>>


\* C24: the inbox of a bounded owner never holds more than buffer commands; a
\* try_* call returns Send exactly when it found the inbox full, it leaves
\* inbox and storage as they were, and its command is never in the inbox and
\* never served.
C24_TryFailsFastWhenFull ==
    /\ Len(rx["p"]) <= buffer["p"][1]
    /\ (last.ev = "Err" /\ last.err = "Send") =>
            /\ Len(hist.prev.rx) = buffer["p"][1]
            /\ rx["p"] = hist.prev.rx
            /\ Store("p") = hist.prev.store
    /\ (last.ev = NoEvent.ev /\ nsent > 0) => Len(hist.prev.rx) < buffer["p"][1]
    /\ \A i \in 1..Len(rx["p"]) : rx["p"][i].id \notin hist.refused
    /\ last.ev = "Recv" => last.cmd.id \notin hist.refused

\* C24 witness: try_push returned Send on an inbox holding buffer = 2
\* commands, and the owner then served a command that had been accepted.
C24_Witness ==
    /\ buffer["p"] = Some(2)
    /\ hist.refused # {}
    /\ last.ev = "Recv"
    /\ last.cmd.op = "Push"
    /\ Len(vec["p"]) = 1


\* C25 (as claimed): once every handle of the owner is dropped and its inbox
\* is drained, the owner task eventually has left its loop.
C25_OwnerTerminatesWhenClosed ==
    (handles["p"] = 0 /\ rx["p"] = <<>>) ~> (pc["p"] = "terminated")


\* C26 (as claimed): whatever handles the owners were told to replicate, a
\* maintenance phase that waits for the reply of its replication pull
\* eventually completes.
C26_MaintenanceCompletes ==
    \A o \in Owners : (pc[o] = "pull") ~> (pc[o] = "idle")


\* C27: serving Replicate or StopReplicating changes the follower link only,
\* storage is what the command found; a tick of an owner whose link is
\* cleared pulls nothing and leaves storage as it found it.
C27_LinkCommandsKeepStorage ==
    /\ Replied("f", {"Replicate", "StopReplicating"}) =>
            /\ hm["f"] = hist.prev
            /\ replica_of["f"] = IF last.cmd.op = "Replicate" THEN Some(last.cmd.master)
                                 ELSE None
    /\ (Ticked("f") /\ replica_of["f"] = None) =>
            last.pulled = "none" /\ hm["f"] = last.before

\* C27 witness: the follower served StopReplicating, the primary then lost
\* the key, and after a later tick the follower still holds what it replicated.
C27_Witness ==
    /\ Ticked("f")
    /\ replica_of["f"] = None
    /\ hist.stop_seen["f"] # None
    /\ "a" \in DOMAIN hm["f"]
    /\ hm["p"] = EmptyMap
    /\ hist.served["p"]["a"] = None


\* C28: when a tick of follower f whose pull succeeded completes (policy None,
\* no TTL), f's storage is, entry for entry, the storage the primary had when
\* it served that tick's GetAllRaw: what was written to f directly is gone
\* unless the primary held it, and what the primary had removed is gone.
C28_FollowerStorageIsSnapshot ==
    (Ticked("f") /\ last.pulled = "ok") =>
        /\ hm["f"] = hist.snap_store["f"]
        /\ \A k \in Keys :
                k \in DOMAIN hm["f"] <=> hist.snap["f"][k] # None

\* C28 witness: such a tick completed after "b" was written to the follower
\* directly and "a" was inserted into and removed from the primary; the
\* follower holds neither.
C28_Witness ==
    /\ Ticked("f")
    /\ last.pulled = "ok"
    /\ hist.served["f"]["b"] # None
    /\ hist.applied # {}
    /\ hist.served["p"]["a"] = None
    /\ hm["f"] = EmptyMap


Unexpired(sh, m, t) ==
    IF sh = "bhs" THEN {e \in DOMAIN m : e.expiration = None \/ t < e.expiration[1]}
    ELSE LiveKeys(m, t)

\* C30: when a tick of a follower whose pull failed completes, the sweep acted
\* on the storage the follower had when the tick began: the entries left are
\* entries it had, unchanged, none of them expired, all of the unexpired ones
\* unless the policy evicted down to its capacity; the follower link is kept
\* and the owner is ready for its next tick.
C30_FailedPullKeepsStorage ==
    (Ticked("f") /\ last.pulled = "err") =>
        /\ last.before = hist.prev
        /\ DOMAIN hm["f"] \subseteq Unexpired(shape["f"], hist.prev, last.at)
        /\ \A k \in DOMAIN hm["f"] : hm["f"][k] = hist.prev[k]
        /\ IF expiration_policy["f"].kind = "None"
           THEN DOMAIN hm["f"] = Unexpired(shape["f"], hist.prev, last.at)
           ELSE Cardinality(DOMAIN hm["f"]) <= expiration_policy["f"].capacity
        /\ replica_of["f"] = Some("p")
        /\ pc["f"] = "idle"

\* C30 witness: the pull of a bounded set failed on the primary's full inbox,
\* and the tick swept an expired value of the follower.
C30_Witness ==
    /\ Ticked("f")
    /\ last.pulled = "err"
    /\ shape["f"] = "bhs"
    /\ pc["p"] = "idle"
    /\ hist.prev # EmptyMap
    /\ hm["f"] # hist.prev

\* C31: in one tick the TTL sweep runs before capacity enforcement and
\* capacity enforcement counts the survivors of the sweep only: when the
\* entries not expired at the tick are at most C, the completed tick leaves
\* exactly those entries, unchanged (and, in a sequence, in order).
C31_SweepBeforeCapacity ==
    \A o \in Owners :
        (Ticked(o) /\ expiration_policy[o].kind # "None") =>
            IF shape[o] = "vec"
            THEN LET Fresh(e) == ~Expired(e, last.at)
                 IN  Len(SelectSeq(last.before, Fresh)) <= expiration_policy[o].capacity
                         => vec[o] = SelectSeq(last.before, Fresh)
            ELSE Cardinality(LiveKeys(last.before, last.at)) <= expiration_policy[o].capacity
                     => /\ DOMAIN hm[o] = LiveKeys(last.before, last.at)
                        /\ \A k \in DOMAIN hm[o] : hm[o][k] = last.before[k]

\* C31 witness: a map above its capacity before the sweep, at its capacity
\* after it: the tick removed the expired entry and evicted nothing
C31_Witness ==
    /\ Ticked("p") /\ shape["p"] = "hm" /\ expiration_policy["p"].kind # "None"
    /\ Cardinality(DOMAIN last.before) > expiration_policy["p"].capacity
    /\ \E k \in DOMAIN last.before : Expired(last.before[k], last.at)
    /\ DOMAIN hm["p"] = LiveKeys(last.before, last.at)
    /\ hm["p"] # EmptyMap

\* C32 (as claimed): a tick of a map or set under LRU(C) / LFU(C) that finds
\* fewer than C entries after the TTL sweep does not fault: no owner stops in
\* its tick with fewer entries than its capacity.
C32_TickBelowCapacityRuns ==
    ~(/\ last.ev = "Panic"
      /\ shape[last.o] \in {"hm", "hs"}
      /\ expiration_policy[last.o].kind # "None"
      /\ Cardinality(DOMAIN hm[last.o]) < expiration_policy[last.o].capacity
      /\ pc[last.o] = "panicked")

\* the keys a served read touches, one per occurrence
ReadArgs(cmd, m) ==
    CASE cmd.op = "Get" -> <<cmd.key>>
      [] cmd.op = "GetAll" -> <<>>
      [] OTHER -> cmd.keys

\* how often key k occurs among the keys read by cmd on storage m
Touches(cmd, m, k) ==
    IF cmd.op = "GetAll" THEN 1
    ELSE Cardinality({i \in 1..Len(ReadArgs(cmd, m)) : ReadArgs(cmd, m)[i] = k})

\* C33: in the map, get, mget, contains_key, ttl and get_all leave the set of
\* keys, the values and the expirations as they were, add to the access
\* count of each stored key the number of times the command names it and set
\* last_accessed of the keys it names to the time of service; an insert of an
\* absent key stores access count 0, an overwriting insert the prior count + 1.
C33_ReadsCountAccesses ==
    /\ (Replied("p", {"Get", "MGet", "ContainsKey", "TTL", "GetAll"}) /\ shape["p"] = "hm") =>
            /\ DOMAIN hm["p"] = DOMAIN hist.prev
            /\ \A k \in DOMAIN hist.prev :
                    LET n == Touches(last.cmd, hist.prev, k)
                    IN  /\ hm["p"][k].val = hist.prev[k].val
                        /\ hm["p"][k].expiration = hist.prev[k].expiration
                        /\ hm["p"][k].call_cnt = hist.prev[k].call_cnt + n
                        /\ hm["p"][k].last_accessed =
                               IF n > 0 THEN last.at ELSE hist.prev[k].last_accessed
    /\ (Replied("p", {"Insert"}) /\ shape["p"] = "hm") =>
            LET k == last.cmd.key
            IN  /\ k \notin DOMAIN hist.prev => hm["p"][k].call_cnt = 0
                /\ (k \in DOMAIN hist.prev /\ ~last.cmd.nx) =>
                       hm["p"][k].call_cnt = hist.prev[k].call_cnt + 1
                /\ \A j \in DOMAIN hist.prev \ {k} : hm["p"][j] = hist.prev[j]

\* C33 witness: mget(a, a) at a later time than the insert of a, with b stored
\* and not named: a counted twice, b untouched
C33_Witness ==
    /\ Replied("p", {"MGet"}) /\ shape["p"] = "hm" /\ last.cmd.keys = <<"a", "a">>
    /\ DOMAIN hist.prev = {"a", "b"}
    /\ hist.prev["a"].last_accessed < last.at
    /\ hm["p"]["a"].call_cnt = hist.prev["a"].call_cnt + 2
    /\ hm["p"]["b"] = hist.prev["b"]

\* C34 (as claimed): after the set owner served get_all, every stored value
\* has an access count one higher than before and last_accessed at the time
\* of service.
C34_SetGetAllCountsAccess ==
    (Replied("p", {"GetAll"}) /\ shape["p"] = "hs") =>
        /\ DOMAIN hm["p"] = DOMAIN hist.prev
        /\ \A v \in DOMAIN hist.prev :
               /\ hm["p"][v].call_cnt = hist.prev[v].call_cnt + 1
               /\ hm["p"][v].last_accessed = last.at

\* C35: an overwriting map insert (nx=false, key present) stores the new
\* value with the expiration of this insert: none when ex is none, the time
\* of service plus ex otherwise, whatever deadline the key had.
C35_OverwriteReplacesExpiration ==
    (/\ Replied("p", {"Insert"}) /\ shape["p"] = "hm"
     /\ ~last.cmd.nx /\ last.cmd.key \in DOMAIN hist.prev) =>
        /\ hm["p"][last.cmd.key].val = last.cmd.val
        /\ hm["p"][last.cmd.key].expiration =
               IF last.cmd.ex = None THEN None ELSE Some(last.at + last.cmd.ex[1])

\* C35 witness: a key with a deadline is overwritten without one
C35_Witness ==
    /\ Replied("p", {"Insert"}) /\ shape["p"] = "hm"
    /\ ~last.cmd.nx /\ last.cmd.key \in DOMAIN hist.prev
    /\ hist.prev[last.cmd.key].expiration # None
    /\ last.cmd.ex = None
    /\ hm["p"][last.cmd.key].expiration = None

\* C36: the step in which an owner serves GetAllRaw changes nothing of its
\* storage: the same entries with the same access counts and last accesses
\* before and after, and its follower link is the same.
C36_GetAllRawKeepsPrimary ==
    [][(last'.ev = "Recv" /\ last'.cmd.op = "GetAllRaw") =>
            /\ hm'[last'.o] = hm[last'.o]
            /\ vec'[last'.o] = vec[last'.o]
            /\ replica_of'[last'.o] = replica_of[last'.o]]_vars

\* C36 witness: the primary has served a pull at a time later than the last
\* access of an entry it holds, and the follower is about to take the snapshot
C36_Witness ==
    /\ Replied("p", {"GetAllRaw"})
    /\ \E k \in DOMAIN hm["p"] : hm["p"][k].last_accessed < last.at
    /\ resp_rx["f"] = <<"ok", hm["p"]>>

\* a is b with some elements left out, the others in the order of b
RECURSIVE IsSubseq(_, _)
IsSubseq(a, b) ==
    IF a = <<>> THEN TRUE
    ELSE IF b = <<>> THEN FALSE
    ELSE IF Head(a) = Head(b) THEN IsSubseq(Tail(a), Tail(b))
    ELSE IsSubseq(a, Tail(b))

\* C37: get_all of a standalone sequence returns the stored values in the
\* order of their pushes: the reply is the sequence of pushed values with the
\* swept and evicted ones left out, and it is what storage held, in order.
C37_GetAllInPushOrder ==
    (Replied("p", {"GetAll"}) /\ shape["p"] = "vec") =>
        /\ IsSubseq(last.out, hist.pushed)
        /\ last.out = [i \in 1..Len(hist.prev) |-> hist.prev[i].val]
        /\ Len(vec["p"]) = Len(last.out)

\* C37 witness: three pushes, a tick that evicted the first of them, then
\* get_all returns the other two in push order
C37_Witness ==
    /\ Replied("p", {"GetAll"}) /\ shape["p"] = "vec"
    /\ Len(hist.pushed) = 3
    /\ last.out = <<hist.pushed[2], hist.pushed[3]>>
    /\ hist.pushed[2] # hist.pushed[3]
    /\ hist.pushed[1] # hist.pushed[2]

\* owner o stores an entry of key (value) x with deadline d
StoredWith(o, x, d) ==
    IF shape[o] = "hm"
    THEN x \in DOMAIN hm[o] /\ hm[o][x].expiration = Some(d)
    ELSE \E i \in 1..Len(vec[o]) : vec[o][i].val = x /\ vec[o][i].expiration = Some(d)

\* C38: with the tick branch taken fairly and time passing, every entry
\* stored with a deadline (within the range of the clock) is eventually no
\* longer stored, however many commands the owner serves in between.
C38_TtlEntriesEventuallyRemoved ==
    /\ \A k \in {"a", "b"} : \A d \in 1..MaxTime :
           (shape["p"] = "hm" /\ StoredWith("p", k, d))
               ~> ~(shape["p"] = "hm" /\ StoredWith("p", k, d))
    /\ \A v \in Vals : \A d \in 1..MaxTime :
           (shape["p"] = "vec" /\ StoredWith("p", v, d))
               ~> ~(shape["p"] = "vec" /\ StoredWith("p", v, d))

\* C38 witness: a tick at the deadline of a stored entry has removed it
C38_Witness ==
    /\ Ticked("p") /\ shape["p"] = "hm"
    /\ \E k \in DOMAIN last.before :
           /\ last.before[k].expiration = Some(last.at)
           /\ k \notin DOMAIN hm["p"]

\* C39 (as claimed): what get_all on the cluster handle returns is what the
\* shards held together at some one instant between its call and its return.
C39_ClusterGetAllIsSnapshot ==
    (last.ev = "Cluster" /\ last.cmd.op = "GetAll") => last.out \in hist.seen

====
